---- MODULE Spec2Model ----
(***************************************************************************)
(* Model of the BIEM memory engine of OmniEmployee:                        *)
(*   - the tier hierarchy (L1 working memory, L2 vector store, L2 graph)   *)
(*     orchestrated by TierManager, with the EnergyController;             *)
(*   - the KnowledgeStore of versioned triples with its history table.     *)
(* Energies are integers in hundredths (0.01 = 1, 1.0 = 100); time is an   *)
(* integer clock of ticks.                                                 *)
(***************************************************************************)
EXTENDS Integers, Sequences, FiniteSets, TLC

\* ---------------------------------------------------------------- bounds
NumIds == 4
MaxTime == 2
MaxOps == 4
MaxWrites == 5
L1MaxNodes == 2
MaxEdgesPerNode == 2
NumGraphIds == 3
MaxGraphOps == 3
MaxMsgs == 3
MaxLoopOps == 1
MaxFacOps == 3
MaxConflicts == 1
MaxIterations == 4

\* ------------------------------------------------- program constants
MinEnergy == 1
MaxEnergy == 100
ActivationBoost == 10
L1EnergyThreshold == 50
L2ToL1Threshold == 70
L1ToL2Threshold == 30
L1MinEnergy == 10
TtlTicks == 1

NodeIds == 1..NumIds
Importances == {30, 60, 80}
EnergyInputs == {0, 20, 70, 150}
Feedbacks == {-10, 10}
NoNode == [id |-> 0, energy |-> 0, tier |-> "none", last_accessed |-> 0]

VARIABLES
    l1_nodes,      \* L1WorkingMemory._nodes: sequence of node records in dict insertion order
    l2_rows,       \* L2VectorStorage collection: function id -> row
    graph_nodes,   \* L2GraphStorage node set
    now,           \* time.time()
    used,          \* node ids already generated by uuid4
    ops,           \* number of steps taken (exploration bound)
    lastOp,        \* observation of the last TierManager operation
    putLog,        \* observation of the last L1WorkingMemory.put
    triples,       \* knowledge_triples rows, in insertion order
    history,       \* knowledge_history rows, in insertion order
    objlog,        \* per triple id: every object value written to the row, in order
    lastStore,     \* observation of the last KnowledgeStore operation
    graph_adj,     \* L2GraphStorage._graph adjacency: node -> successor entries
    lastLink,      \* observation of the last graph operation
    lastSpread,    \* observation of the last spread_activation call
    pending,       \* ConfirmationManager._pending in insertion order
    tid,           \* number of triples the extractor has created
    vector_ids,    \* triple_id of every entry of the KnowledgeVectorStore collection
    lastMsg,       \* observation of the last KnowledgeLearningPlugin call
    current_user,  \* web/app.py _current_user_id as get_current_user_id reports it
    owner,         \* per node id: the current user at the time the node was ingested
    lastRecall,    \* observation of the last retrieval call
    tier_running,  \* TierManager._running
    energy_running,\* EnergyController._running
    loop_pc,       \* per background loop: where its task is
    run_pc,        \* where the cleanup run in progress is inside _run_cleanup
    run_pending,   \* nodes the cleanup run holds in a local list, still to be handled
    stop_requested,\* a caller's stop has arrived and waits for the event loop
    loopObs,       \* observation of the background loops
    initialized,   \* MemoryManager._initialized
    tier_l3_available,   \* TierManager._l3_available (unset until connect_all)
    router_l3_available, \* AssociationRouter._l3_available
    crystal_links, \* rows of the L3 table crystal_links
    recent_nodes,  \* AssociationRouter._recent_nodes
    pending_conflicts, \* MemoryManager._pending_conflicts, in list order
    deleted,       \* ids removed by delete_node or by resolve_conflict keep_new / keep_old
    agent_state,   \* AgentLoop.state, a LoopState value
    iteration,     \* AgentLoop._iteration
    tool_calls_count, \* AgentLoop._tool_calls_count
    total_tokens,  \* AgentLoop._total_tokens
    context,       \* agent.context: the kinds of the messages added so far
    agent_pc,      \* where AgentLoop.run is: idle, in the while loop, returned
    result,        \* the LoopResult the last run returned
    got_final,     \* the LLM gave a response without tool calls in this run
    wlog,          \* stores written by the façade call in progress, in order
    lastFac        \* observation of the last façade call

tierVars == <<l1_nodes, l2_rows, graph_nodes, now, used, ops, lastOp, putLog>>
knowVars == <<triples, history, objlog, lastStore>>
graphVars == <<graph_adj, lastLink, lastSpread>>
plugVars == <<pending, tid, vector_ids, lastMsg>>
userVars == <<current_user, owner, lastRecall>>
loopVars == <<tier_running, energy_running, loop_pc, run_pc, run_pending,
              stop_requested, loopObs>>
facVars == <<initialized, tier_l3_available, router_l3_available, crystal_links,
             recent_nodes, pending_conflicts, deleted, wlog, lastFac>>
agentVars == <<agent_state, iteration, tool_calls_count, total_tokens, context,
               agent_pc, result, got_final>>
vars == <<l1_nodes, l2_rows, graph_nodes, now, used, ops, lastOp, putLog,
          triples, history, objlog, lastStore, graph_adj, lastLink, lastSpread,
          pending, tid, vector_ids, lastMsg, current_user, owner, lastRecall,
          tier_running, energy_running, loop_pc, run_pc, run_pending,
          stop_requested, loopObs, initialized, tier_l3_available,
          router_l3_available, crystal_links, recent_nodes, pending_conflicts,
          deleted, wlog, lastFac, agent_state, iteration, tool_calls_count,
          total_tokens, context, agent_pc, result, got_final>>

Min(a, b) == IF a < b THEN a ELSE b
Max(a, b) == IF a > b THEN a ELSE b

SeqRange(seq) == {seq[i] : i \in 1..Len(seq)}

\* seq[:n]
Take(seq, n) == SubSeq(seq, 1, Min(n, Len(seq)))

\* every iteration order of a set
Perms(S) ==
    {f \in [1..Cardinality(S) -> S] : \A i, j \in 1..Cardinality(S) : i # j => f[i] # f[j]}

\* del seq[i] / dict.pop on an insertion-ordered container
RemoveAt(seq, i) == [k \in 1..(Len(seq) - 1) |-> IF k < i THEN seq[k] ELSE seq[k + 1]]

RECURSIVE Pow2(_)
Pow2(n) == IF n <= 0 THEN 1 ELSE 2 * Pow2(n - 1)

\* ------------------------------------------------------------ MemoryNode
\* Encoder.encode creates the node with energy 1.0, tier L1, last_accessed = now
NewNode(id, t) == [id |-> id, energy |-> MaxEnergy, tier |-> "L1", last_accessed |-> t]

touch(node, t) == [node EXCEPT !.last_accessed = t]

\* ------------------------------------------------------ EnergyController
\* variant of calculate_decay with the sign of the exponent inverted
calculate_decay_Inverted(node, t) ==
    LET delta_t == t - node.last_accessed
    IN IF delta_t <= 0 THEN node.energy
       ELSE Max(MinEnergy, Min(MaxEnergy, node.energy * Pow2(delta_t)))

\* exp(-lambda * delta_t) is modelled as halving once per tick
calculate_decay(node, t) ==
    LET delta_t == t - node.last_accessed
    IN IF delta_t <= 0 THEN node.energy
       ELSE Max(MinEnergy, node.energy \div Pow2(delta_t))

\* node.energy = calculate_decay(node); last_accessed stays as it is
apply_decay(node, t) == [node EXCEPT !.energy = calculate_decay(node, t)]

boost_energy(node, boost, t) ==
    touch([node EXCEPT !.energy = Min(MaxEnergy, node.energy + boost)], t)

estimate_initial_energy(importance) == Max(10, Min(100, importance))

\* ------------------------------------------------------ L1WorkingMemory
L1Ids(l1) == {l1[i].id : i \in 1..Len(l1)}

L1Index(l1, id) == CHOOSE i \in 1..Len(l1) : l1[i].id = id

L1Lookup(l1, id) == l1[L1Index(l1, id)]

\* self._nodes[node.id] = node : a dict keeps the position of an existing key
L1Assign(l1, node) ==
    IF node.id \in L1Ids(l1)
    THEN [l1 EXCEPT ![L1Index(l1, node.id)] = node]
    ELSE Append(l1, node)

RECURSIVE L1Remove(_, _)
L1Remove(l1, ids) ==
    IF l1 = <<>> THEN <<>>
    ELSE IF Head(l1).id \in ids THEN L1Remove(Tail(l1), ids)
         ELSE <<Head(l1)>> \o L1Remove(Tail(l1), ids)

\* position of entry i in sorted(nodes, key=energy): stable ascending sort
SortRank(l1, i) ==
    Cardinality({j \in 1..Len(l1) :
        \/ l1[j].energy < l1[i].energy
        \/ (l1[j].energy = l1[i].energy /\ j < i)})

\* variant of EvictSet that takes the victims from the high end of the sort
EvictSetHighest(l1) ==
    IF Len(l1) <= L1MaxNodes THEN {}
    ELSE LET evict_count == Len(l1) - L1MaxNodes
         IN {l1[i].id : i \in {k \in 1..Len(l1) : SortRank(l1, k) >= Len(l1) - evict_count}}

\* the ids _evict_lowest_energy deletes
EvictSet(l1) ==
    IF Len(l1) <= L1MaxNodes THEN {}
    ELSE LET evict_count == Len(l1) - L1MaxNodes
         IN {l1[i].id : i \in {k \in 1..Len(l1) : SortRank(l1, k) < evict_count}}

\* L1WorkingMemory.put: result carries the new dict, what _evict_lowest_energy
\* evicted, and what put hands back to its caller (put returns None)
L1Put(l1, node) ==
    LET ins == L1Assign(l1, [node EXCEPT !.tier = "L1"])
        ev == EvictSet(ins)
    IN [l1 |-> L1Remove(ins, ev),
        evicted |-> ev,
        returned |-> {},
        log |-> [count |-> Len(ins),
                 evicted |-> {L1Lookup(ins, i).energy : i \in ev},
                 nevicted |-> Cardinality(ev),
                 remaining |-> {L1Lookup(ins, i).energy : i \in L1Ids(ins) \ ev}]]

\* L1WorkingMemory.update_energy clamps to [0.0, 1.0]
L1UpdateEnergy(l1, id, e) ==
    IF id \in L1Ids(l1)
    THEN [l1 EXCEPT ![L1Index(l1, id)].energy = Max(0, Min(100, e))]
    ELSE l1

\* ------------------------------------------------------ L2VectorStorage
L2Ids(l2) == DOMAIN l2

\* upsert of the serialised node
L2Put(l2, node) == [i \in (DOMAIN l2) \cup {node.id} |-> IF i = node.id THEN node ELSE l2[i]]

L2Delete(l2, id) == [i \in (DOMAIN l2) \ {id} |-> l2[i]]

L2UpdateEnergy(l2, id, e) ==
    IF id \in DOMAIN l2 THEN L2Put(l2, [l2[id] EXCEPT !.energy = e]) ELSE l2

\* ------------------------------------------------------- KnowledgeStore
Subjects == {"Python", "python"}
Predicates == {"created_by"}
Objects == {"Guido", "GvR"}
Users == {"alice", "bob"}
Confidences == {8, 10}

\* SQL LOWER() on the strings of the model
Lower(str) == IF str = "Python" THEN "python" ELSE str

\* KnowledgeTriple as built by the extractor: version 1, no previous values
NewTriple(id, subj, pred, obj, conf, user) ==
    [id |-> id, subject |-> subj, predicate |-> pred, object |-> obj,
     confidence |-> conf, version |-> 1, previous_values |-> <<>>, user_id |-> user]

\* rows hit by ON CONFLICT (subject, predicate): the UNIQUE(subject, predicate) index
ConflictIdx(rows, t) ==
    {i \in 1..Len(rows) : rows[i].subject = t.subject /\ rows[i].predicate = t.predicate}

RowIdxById(rows, id) == {i \in 1..Len(rows) : rows[i].id = id}

\* variant of UpsertRow that pushes the incoming object instead of the old one
UpsertRowPushNew(row, t) ==
    [row EXCEPT !.object = t.object,
                !.confidence = Max(row.confidence, t.confidence),
                !.version = row.version + 1,
                !.previous_values = Append(row.previous_values, t.object)]

\* DO UPDATE SET ... of KnowledgeStore.store
UpsertRow(row, t) ==
    [row EXCEPT !.object = t.object,
                !.confidence = Max(row.confidence, t.confidence),
                !.version = row.version + 1,
                !.previous_values = Append(row.previous_values, row.object)]

\* KnowledgeStore.store: INSERT ... ON CONFLICT (subject, predicate) DO UPDATE
KS_store(rows, t) ==
    IF ConflictIdx(rows, t) = {}
    THEN Append(rows, t)
    ELSE LET i == CHOOSE k \in ConflictIdx(rows, t) : TRUE
         IN [rows EXCEPT ![i] = UpsertRow(rows[i], t)]

\* UPDATE knowledge_triples ... WHERE id = $1 of KnowledgeStore.update
UpdateRow(row, new_object, conf) ==
    [row EXCEPT !.object = new_object,
                !.confidence = conf,
                !.version = row.version + 1,
                !.previous_values = Append(row.previous_values, row.object)]

\* variant of KS_update that updates the row without recording history
KS_update_NoHistory(rows, hist, id, new_object, conf) ==
    IF RowIdxById(rows, id) = {}
    THEN [rows |-> rows, hist |-> hist, ret |-> FALSE]
    ELSE LET i == CHOOSE k \in RowIdxById(rows, id) : TRUE
         IN [rows |-> [rows EXCEPT ![i] = UpdateRow(rows[i], new_object, conf)],
             hist |-> hist,
             ret |-> TRUE]

\* KnowledgeStore.update: one transaction updating the row and inserting history
KS_update(rows, hist, id, new_object, conf) ==
    IF RowIdxById(rows, id) = {}
    THEN [rows |-> rows, hist |-> hist, ret |-> FALSE]
    ELSE LET i == CHOOSE k \in RowIdxById(rows, id) : TRUE
             old_value == rows[i].object
         IN [rows |-> [rows EXCEPT ![i] = UpdateRow(rows[i], new_object, conf)],
             hist |-> Append(hist, [triple_id |-> id, old_value |-> old_value,
                                    new_value |-> new_object]),
             ret |-> TRUE]

\* SELECT ... WHERE LOWER(subject) = LOWER($1) AND LOWER(predicate) = LOWER($2)
get_by_subject_predicate(rows, subj, pred) ==
    {i \in 1..Len(rows) : /\ Lower(rows[i].subject) = Lower(subj)
                          /\ Lower(rows[i].predicate) = Lower(pred)}

\* number of writes the table has received: every write adds one to some version
RECURSIVE Writes(_)
Writes(rows) == IF rows = <<>> THEN 0 ELSE Head(rows).version + Writes(Tail(rows))

HistoryOf(hist, id) == SelectSeq(hist, LAMBDA h : h.triple_id = id)

LogWrite(log, id, obj) ==
    [i \in (DOMAIN log) \cup {id} |->
        IF i = id THEN (IF id \in DOMAIN log THEN Append(log[id], obj) ELSE <<obj>>)
        ELSE log[i]]


\* ------------------------------------------------ KnowledgeLearningPlugin
\* Plugin state threaded through one handler: the triples table, the history
\* table and ConfirmationManager._pending (key -> (new_triple, existing) in
\* dict insertion order, the key being the new triple's id).
Roles == {"user", "assistant"}

\* messages as character sequences (already lower-cased and stripped)
Messages == {<<"y", "e", "s">>, <<"n", "o">>, <<"h", "m", "m">>, <<"o", "k", "a", "y">>,
             <<"n", "a", "y">>}
PositiveResponses == {<<"y", "e", "s">>, <<"y">>, <<"o", "k">>}
NegativeResponses == {<<"n", "o">>, <<"n">>}

PlugState(rows, hist, pend) == [rows |-> rows, hist |-> hist, pend |-> pend]

\* Python `r in msg` on strings: r occurs as a substring of msg
Contains(msg, r) ==
    \E k \in 0..(Len(msg) - Len(r)) : \A i \in 1..Len(r) : msg[k + i] = r[i]

is_positive(msg) == \E r \in PositiveResponses : Contains(msg, r)

is_negative(msg) == \E r \in NegativeResponses : Contains(msg, r)

\* SELECT ... WHERE LOWER(subject) = LOWER($1) AND LOWER(predicate) = LOWER($2)
\*              AND LOWER(object) != LOWER($3)
find_potential_conflicts(rows, t) ==
    {i \in 1..Len(rows) : /\ Lower(rows[i].subject) = Lower(t.subject)
                          /\ Lower(rows[i].predicate) = Lower(t.predicate)
                          /\ Lower(rows[i].object) # Lower(t.object)}

_is_direct_conflict(new, existing) ==
    /\ Lower(new.subject) = Lower(existing.subject)
    /\ Lower(new.predicate) = Lower(existing.predicate)
    /\ Lower(new.object) # Lower(existing.object)

\* KnowledgeConflictDetector.check: index of the first direct conflict, 0 if none
check(rows, t) ==
    LET hits == {i \in find_potential_conflicts(rows, t) : _is_direct_conflict(t, rows[i])}
    IN IF hits = {} THEN 0 ELSE CHOOSE i \in hits : \A j \in hits : i <= j

PendingIdx(pend, key) == {i \in 1..Len(pend) : pend[i].key = key}

add_pending(pend, new_triple, existing_triple) ==
    LET entry == [key |-> new_triple.id, new |-> new_triple, existing |-> existing_triple]
    IN IF PendingIdx(pend, entry.key) = {} THEN Append(pend, entry)
       ELSE [pend EXCEPT ![CHOOSE i \in PendingIdx(pend, entry.key) : TRUE] = entry]

\* the `None` a pending entry carries when add_pending got no existing triple
NoTriple == NewTriple(0, "", "", "", 0, "")

\* ConfirmationManager.confirm: pop the entry, then update the existing triple.
\* KnowledgeSource is bound only by the import inside the `if existing:`
\* branch, so the `else:` branch raises UnboundLocalError before it stores.
confirm(ps, key) ==
    IF PendingIdx(ps.pend, key) = {} THEN [ps |-> ps, ret |-> FALSE, raised |-> FALSE]
    ELSE LET i == CHOOSE k \in PendingIdx(ps.pend, key) : TRUE
             entry == ps.pend[i]
             u == KS_update(ps.rows, ps.hist, entry.existing.id, entry.new.object, 10)
         IN IF entry.existing # NoTriple
            THEN [ps |-> PlugState(u.rows, u.hist, RemoveAt(ps.pend, i)),
                  ret |-> TRUE, raised |-> FALSE]
            ELSE [ps |-> [ps EXCEPT !.pend = RemoveAt(@, i)],
                  ret |-> FALSE, raised |-> TRUE]

reject(ps, key) ==
    IF PendingIdx(ps.pend, key) = {} THEN [ps |-> ps, ret |-> FALSE]
    ELSE [ps |-> [ps EXCEPT !.pend = RemoveAt(@, CHOOSE k \in PendingIdx(ps.pend, key) : TRUE)],
          ret |-> TRUE]

RECURSIVE ConfirmAll(_, _)
ConfirmAll(ps, keys) ==
    IF keys = <<>> THEN [ps |-> ps, raised |-> FALSE]
    ELSE LET r == confirm(ps, Head(keys))
         IN IF r.raised THEN [ps |-> r.ps, raised |-> TRUE]
            ELSE ConfirmAll(r.ps, Tail(keys))

RECURSIVE RejectAll(_, _)
RejectAll(ps, keys) ==
    IF keys = <<>> THEN ps ELSE RejectAll(reject(ps, Head(keys)).ps, Tail(keys))

get_all_pending_keys(pend) == [i \in 1..Len(pend) |-> pend[i].key]

\* KnowledgeVectorStore.store: upsert of one entry keyed by triple.id
KV_store(ids, t) == ids \cup {t.id}

\* KnowledgeLearningPlugin.process_message for a message the extractor turns
\* into the one triple t
process_message(ps, role, t) ==
    LET c == check(ps.rows, t)
    IN IF c # 0
       THEN IF role = "assistant" /\ t.confidence > ps.rows[c].confidence
            THEN [ps |-> [ps EXCEPT !.rows = KS_store(@, t)], action |-> "stored",
                  vectors |-> KV_store({}, t)]
            ELSE [ps |-> [ps EXCEPT !.pend = add_pending(@, t, ps.rows[c])],
                  action |-> "conflict", vectors |-> {}]
       ELSE [ps |-> [ps EXCEPT !.rows = KS_store(@, t)], action |-> "stored",
             vectors |-> KV_store({}, t)]

\* variant of process_confirmation_response that treats an unclear answer as a no
process_confirmation_response_UnclearRejects(ps, msg) ==
    IF ps.pend = <<>> THEN [ps |-> ps, handled |-> FALSE]
    ELSE IF is_positive(msg)
    THEN LET r == ConfirmAll(ps, get_all_pending_keys(ps.pend))
         IN [ps |-> r.ps, handled |-> ~r.raised]
    ELSE [ps |-> RejectAll(ps, get_all_pending_keys(ps.pend)), handled |-> TRUE]

process_confirmation_response(ps, msg) ==
    IF ps.pend = <<>> THEN [ps |-> ps, handled |-> FALSE]
    ELSE IF ~is_positive(msg) /\ ~is_negative(msg) THEN [ps |-> ps, handled |-> FALSE]
    ELSE IF is_positive(msg)
    THEN LET r == ConfirmAll(ps, get_all_pending_keys(ps.pend))
         IN [ps |-> r.ps, handled |-> ~r.raised]
    ELSE [ps |-> RejectAll(ps, get_all_pending_keys(ps.pend)), handled |-> TRUE]

\* -------------------------------------------------------- L2GraphStorage
\* The nx.DiGraph as a record [nodes, adj]: adj[u] is the successor dict of u,
\* a sequence of [target, link_type, weight] in insertion order.
\* the (link_type, weight) pairs the router creates: temporal weights lie in
\* [0.1, 1.0], semantic weights in [0.7, 1.0]
GraphIds == 1..NumGraphIds
LinkInputs == {<<"temporal", 50>>, <<"semantic", 100>>}
NewWeights == {250}
Boosts == {100}
Decays == {50, 2}
HopInputs == {1, 2}

\* activations are integers in millionths (1.0 = 1000000)
ActOne == 1000000
ActThreshold == 10000
MaxLinkWeight == 200
MinLinkWeight == 10

EmptyAdj == [u \in NodeIds |-> <<>>]

Graph(nodes, adj) == [nodes |-> nodes, adj |-> adj]

EdgeIdx(succ, target) == {i \in 1..Len(succ) : succ[i].target = target}

has_edge(G, source_id, target_id) == EdgeIdx(G.adj[source_id], target_id) # {}

add_node(G, node_id) == [G EXCEPT !.nodes = @ \cup {node_id}]

\* variant of remove_node that forgets the edges pointing at the node
remove_node_KeepIncoming(G, node_id) ==
    IF node_id \notin G.nodes THEN G
    ELSE [nodes |-> G.nodes \ {node_id},
          adj |-> [u \in NodeIds |-> IF u = node_id THEN <<>> ELSE G.adj[u]]]

\* nx remove_node drops the node with its outgoing and incoming edges
remove_node(G, node_id) ==
    IF node_id \notin G.nodes THEN G
    ELSE [nodes |-> G.nodes \ {node_id},
          adj |-> [u \in NodeIds |->
                     IF u = node_id THEN <<>>
                     ELSE SelectSeq(G.adj[u], LAMBDA e : e.target # node_id)]]

\* index of min(edges, key=weight): the first edge of minimal weight
WeakestIdx(succ) ==
    CHOOSE i \in 1..Len(succ) :
        /\ \A j \in 1..Len(succ) : succ[i].weight <= succ[j].weight
        /\ \A j \in 1..(i - 1) : succ[j].weight > succ[i].weight

\* variant of WeakestIdx that picks the heaviest edge
StrongestIdx(succ) ==
    CHOOSE i \in 1..Len(succ) :
        /\ \A j \in 1..Len(succ) : succ[i].weight >= succ[j].weight
        /\ \A j \in 1..(i - 1) : succ[j].weight < succ[i].weight

\* variant of _prune_weakest_edge that removes the heaviest edge
_prune_weakest_edge_Strongest(G, node_id) ==
    IF G.adj[node_id] = <<>> THEN G
    ELSE [G EXCEPT !.adj[node_id] = RemoveAt(@, StrongestIdx(@))]

_prune_weakest_edge(G, node_id) ==
    IF G.adj[node_id] = <<>> THEN G
    ELSE [G EXCEPT !.adj[node_id] = RemoveAt(@, WeakestIdx(@))]

\* nx add_edge: an existing (source, target) entry has its attributes replaced
add_edge(succ, target, link_type, weight) ==
    LET new == [target |-> target, link_type |-> link_type, weight |-> weight]
    IN IF EdgeIdx(succ, target) = {} THEN Append(succ, new)
       ELSE [succ EXCEPT ![CHOOSE i \in EdgeIdx(succ, target) : TRUE] = new]

add_link(G, source_id, target_id, link_type, weight) ==
    LET g1 == add_node(add_node(G, source_id), target_id)
        out_degree == Len(g1.adj[source_id])
        g2 == IF out_degree >= MaxEdgesPerNode
              THEN _prune_weakest_edge(g1, source_id)
              ELSE g1
    IN [g2 EXCEPT !.adj[source_id] = add_edge(@, target_id, link_type, weight)]

remove_link(G, source_id, target_id, link_type) ==
    LET hit == {i \in EdgeIdx(G.adj[source_id], target_id) :
                    G.adj[source_id][i].link_type = link_type}
    IN IF hit = {} THEN G
       ELSE [G EXCEPT !.adj[source_id] = RemoveAt(@, CHOOSE i \in hit : TRUE)]

update_link_weight(G, source_id, target_id, new_weight) ==
    IF has_edge(G, source_id, target_id)
    THEN [G EXCEPT !.adj[source_id][CHOOSE i \in EdgeIdx(G.adj[source_id], target_id) : TRUE].weight
                        = new_weight]
    ELSE G

strengthen_link(G, source_id, target_id, boost) ==
    IF has_edge(G, source_id, target_id)
    THEN [G EXCEPT !.adj[source_id][CHOOSE i \in EdgeIdx(G.adj[source_id], target_id) : TRUE].weight
                        = Min(MaxLinkWeight, @ + boost)]
    ELSE G

\* AssociationRouter.remove_node_links: remove_link for every link of get_links
RECURSIVE RemoveLinks(_, _, _)
RemoveLinks(G, node_id, links) ==
    IF links = <<>> THEN G
    ELSE RemoveLinks(remove_link(G, node_id, Head(links).target, Head(links).link_type),
                     node_id, Tail(links))

remove_node_links(G, node_id) ==
    IF node_id \in G.nodes THEN RemoveLinks(G, node_id, G.adj[node_id]) ELSE G


SetMax(S) == IF S = {} THEN 0 ELSE CHOOSE x \in S : \A y \in S : y <= x

\* score * decay_factor * weight, with decay and weight in hundredths
Candidate(score, decay, weight) == (((score \div 100) * decay) * weight) \div 100

\* one hop of spread_activation: next_wave as a function node -> score (0 = absent)
NextWave(G, valid, wave, decay) ==
    [n \in NodeIds |->
        IF n \notin valid THEN 0
        ELSE SetMax({c \in UNION {{Candidate(wave[m], decay, G.adj[m][i].weight) :
                                      i \in EdgeIdx(G.adj[m], n)} :
                                    m \in {x \in NodeIds : wave[x] > 0}} :
                       c > ActThreshold})]

\* variant of SpreadLoop that returns the last wave instead of the accumulated scores
RECURSIVE SpreadLoop_LastWave(_, _, _, _, _, _)
SpreadLoop_LastWave(G, valid, wave, activation, hops, decay) ==
    IF hops = 0 \/ (\A n \in NodeIds : wave[n] = 0) THEN wave
    ELSE SpreadLoop_LastWave(G, valid, NextWave(G, valid, wave, decay), activation,
                             hops - 1, decay)

RECURSIVE SpreadLoop(_, _, _, _, _, _)
SpreadLoop(G, valid, wave, activation, hops, decay) ==
    IF hops = 0 \/ (\A n \in NodeIds : wave[n] = 0) THEN activation
    ELSE LET next_wave == NextWave(G, valid, wave, decay)
         IN SpreadLoop(G, valid, next_wave,
                       [n \in NodeIds |-> Max(activation[n], next_wave[n])],
                       hops - 1, decay)

\* L2GraphStorage.spread_activation with user_id = "": the returned dict as a
\* function node -> activation, 0 for the nodes that are not keys of the dict
spread_activation(G, start_ids, max_hops, decay_factor) ==
    LET valid_nodes == G.nodes
        current_wave == [n \in NodeIds |-> IF n \in start_ids \cap valid_nodes THEN ActOne ELSE 0]
    IN SpreadLoop(G, valid_nodes, current_wave, current_wave, max_hops, decay_factor)


\* ---------------------------------------------------------- TierManager
\* Working state threaded through one TierManager operation: the three
\* stores plus what the L1 puts made during the operation evicted/returned.
NoPut == [count |-> 0, evicted |-> {}, nevicted |-> 0, remaining |-> {}]

OpState(l1, l2, g) ==
    [l1 |-> l1, l2 |-> l2, g |-> g, evicted |-> {}, returned |-> {}, log |-> NoPut]

ApplyPut(st, node) ==
    LET p == L1Put(st.l1, node)
    IN [st EXCEPT !.l1 = p.l1,
                  !.evicted = @ \cup p.evicted,
                  !.returned = @ \cup p.returned,
                  !.log = p.log]

\* TierManager.store; fail = "l2put" is the vector backend raising in put
TM_store(st, node, fail) ==
    LET s1 == IF node.energy >= L1EnergyThreshold
              THEN ApplyPut(st, [node EXCEPT !.tier = "L1"])
              ELSE st
        n1 == IF node.energy >= L1EnergyThreshold
              THEN [node EXCEPT !.tier = "L1"]
              ELSE [node EXCEPT !.tier = "L2"]
    IN IF fail = "l2put" THEN s1
       ELSE [s1 EXCEPT !.l2 = L2Put(@, n1), !.g = @ \cup {node.id}]

_promote_to_l1(st, node) ==
    IF node.tier = "L1" THEN st
    ELSE LET n1 == [node EXCEPT !.tier = "L1"]
             s1 == ApplyPut(st, n1)
         IN [s1 EXCEPT !.l2 = L2Put(@, n1)]

\* variant of _demote_from_l1 that drops the L1 entry without re-putting it in L2
_demote_from_l1_NoWriteBack(st, id, t) ==
    IF id \notin L1Ids(st.l1) THEN st
    ELSE [st EXCEPT !.l1 = L1Remove(@, {id})]

_demote_from_l1(st, id, t) ==
    IF id \notin L1Ids(st.l1) THEN st
    ELSE LET node == [touch(L1Lookup(st.l1, id), t) EXCEPT !.tier = "L2"]
         IN [st EXCEPT !.l1 = L1Remove(@, {id}), !.l2 = L2Put(@, node)]

\* TierManager.get: result is the new state and the returned node (NoNode = None)
TM_get(st, id, t) ==
    IF id \in L1Ids(st.l1)
    THEN LET node == boost_energy(touch(L1Lookup(st.l1, id), t), ActivationBoost, t)
         IN [st |-> [st EXCEPT !.l1 = L1Assign(@, node)], ret |-> node]
    ELSE IF id \in L2Ids(st.l2)
    THEN LET node == boost_energy(st.l2[id], ActivationBoost, t)
         IN IF node.energy >= L2ToL1Threshold
            THEN [st |-> _promote_to_l1(st, node), ret |-> [node EXCEPT !.tier = "L1"]]
            ELSE [st |-> st, ret |-> node]
    ELSE [st |-> st, ret |-> NoNode]

\* TierManager.update_energy: result is the new state and the returned flag
TM_update_energy(st, id, e, t) ==
    LET l1_updated == id \in L1Ids(st.l1)
        l2_updated == id \in L2Ids(st.l2)
        s1 == [st EXCEPT !.l1 = L1UpdateEnergy(@, id, e),
                         !.l2 = L2UpdateEnergy(@, id, e)]
    IN IF ~l1_updated /\ ~l2_updated THEN [st |-> st, ret |-> FALSE]
       ELSE IF l1_updated /\ e < L1ToL2Threshold
       THEN [st |-> _demote_from_l1(s1, id, t), ret |-> TRUE]
       ELSE IF ~l1_updated /\ e >= L2ToL1Threshold
       THEN [st |-> _promote_to_l1(s1, s1.l2[id]), ret |-> TRUE]
       ELSE [st |-> s1, ret |-> TRUE]

TM_delete(st, id) ==
    [st EXCEPT !.l1 = L1Remove(@, {id}), !.l2 = L2Delete(@, id), !.g = @ \ {id}]

\* write a set of removed L1 nodes back to L2 with tier = L2
L2PutAllAsL2(l2, nodes) ==
    [i \in (DOMAIN l2) \cup {n.id : n \in nodes} |->
        IF \E n \in nodes : n.id = i
        THEN [(CHOOSE n \in nodes : n.id = i) EXCEPT !.tier = "L2"]
        ELSE l2[i]]

L1NodeSet(l1) == {l1[i] : i \in 1..Len(l1)}

\* TierManager._run_cleanup
\* variant of TM_run_cleanup that drops the stale nodes without writing them to L2
TM_run_cleanup_DropStale(st, t) ==
    LET stale == {n \in L1NodeSet(st.l1) : n.last_accessed < t - TtlTicks}
    IN [st EXCEPT !.l1 = L1Remove(st.l1, {n.id : n \in stale})]

TM_run_cleanup(st, t) ==
    LET stale == {n \in L1NodeSet(st.l1) : n.last_accessed < t - TtlTicks}
        l1a == L1Remove(st.l1, {n.id : n \in stale})
        l2a == L2PutAllAsL2(st.l2, stale)
        low == {n \in L1NodeSet(l1a) : n.energy < L1MinEnergy}
        l1b == L1Remove(l1a, {n.id : n \in low})
        l2b == L2PutAllAsL2(l2a, low)
        l1c == [i \in 1..Len(l1b) |-> [l1b[i] EXCEPT !.energy = calculate_decay(l1b[i], t)]]
        dem == {n \in L1NodeSet(l1c) : n.energy < L1ToL2Threshold}
        l1d == L1Remove(l1c, {n.id : n \in dem})
        l2d == L2PutAllAsL2(l2b, {touch(n, t) : n \in dem})
    IN [st EXCEPT !.l1 = l1d, !.l2 = l2d]

\* MemoryManager.record_event for one related node: ingest the event node,
\* then get / boost_energy(related, feedback * 0.1) / update_energy.
\* boost_energy mutates the object get returned, which is the L1 entry
\* whenever the node is resident in L1.
MM_record_event(st, newid, fb, rid, t) ==
    LET importance == 50 + 5 * (IF fb < 0 THEN -fb ELSE fb)
        ev == [NewNode(newid, t) EXCEPT !.energy = estimate_initial_energy(importance)]
        s1 == TM_store(st, ev, "none")
        g == TM_get(s1, rid, t)
        related == boost_energy(g.ret, fb, t)
        s2 == IF rid \in L1Ids(g.st.l1)
              THEN [g.st EXCEPT !.l1 = L1Assign(@, related)]
              ELSE g.st
    IN IF g.ret = NoNode \/ fb = 0 THEN s1
       ELSE TM_update_energy(s2, rid, related.energy, t).st

\* ---------------------------------------------------- MemoryManager reads
RecallLimits == {1}
WorkingLimits == {1, 2}
\* similarity scores of the first and second search_by_vector hit, in hundredths
VecScores == <<90, 60>>
SpreadingHops == 2
SpreadingDecay == 50
\* activation (millionths) an activated node needs to join the recall results
MinExtraActivation == 100000

\* L1WorkingMemory._filter_by_user; own[id] is the user_id the node carries
_filter_by_user(l1, user_id, own) ==
    IF user_id = "" THEN l1
    ELSE L1Remove(l1, {id \in L1Ids(l1) : own[id] # user_id})

\* position of entry i in sorted(nodes, key=energy, reverse=True): stable
DescRank(nodes, i) ==
    Cardinality({j \in 1..Len(nodes) :
        \/ nodes[j].energy > nodes[i].energy
        \/ (nodes[j].energy = nodes[i].energy /\ j < i)})

\* L1WorkingMemory.get_top_k: heapq.nlargest(k, nodes, key=energy), as ids
get_top_k(l1, k, user_id, own) ==
    LET nodes == _filter_by_user(l1, user_id, own)
    IN {nodes[i].id : i \in {j \in 1..Len(nodes) : DescRank(nodes, j) < k}}

\* MemoryManager.get_working_memory: get_top_k is called without a user_id
MM_get_working_memory(l1, limit, own) == get_top_k(l1, limit, "", own)

\* TierManager.get on each id in turn; found keeps the ids get returned a node for
RECURSIVE GetAll(_, _, _)
GetAll(st, ids, t) ==
    IF ids = <<>> THEN [st |-> st, found |-> <<>>]
    ELSE LET r == TM_get(st, Head(ids), t)
             rest == GetAll(r.st, Tail(ids), t)
         IN [st |-> rest.st,
             found |-> (IF r.ret # NoNode THEN <<Head(ids)>> ELSE <<>>) \o rest.found]

\* activated nodes that are not among the initial results
ExtraIds(G, hits) ==
    LET act == spread_activation(G, SeqRange(Take(hits, 5)), SpreadingHops, SpreadingDecay)
    IN {n \in NodeIds : act[n] > MinExtraActivation /\ n \notin SeqRange(hits)}

\* 0.7 * vec_score + 0.3 * activation for an initial result, activation * 0.5
\* for an extra node; in ten-thousandths
CombinedScore(hits, keys, act, i) ==
    IF i <= Len(hits)
    THEN 70 * VecScores[i] + 30 * (act[keys[i]] \div 10000)
    ELSE 50 * (act[keys[i]] \div 10000)

\* position of key i in sorted(combined_scores, key=score, reverse=True): stable
ScoreRank(hits, keys, act, i) ==
    Cardinality({j \in 1..Len(keys) :
        \/ CombinedScore(hits, keys, act, j) > CombinedScore(hits, keys, act, i)
        \/ (CombinedScore(hits, keys, act, j) = CombinedScore(hits, keys, act, i) /\ j < i)})

\* sorted(...)[:k]
SortedIds(hits, keys, act, k) ==
    [r \in 1..Min(k, Len(keys)) |->
        keys[CHOOSE i \in 1..Len(keys) : ScoreRank(hits, keys, act, i) = r - 1]]

\* the final loop of recall: fetch each selected id through TierManager.get
FetchNodes(st, sorted_ids, t) ==
    LET fin == GetAll(st, sorted_ids, t)
    IN [st |-> fin.st, ret |-> SeqRange(fin.found)]

\* stage 2 of recall: spreading activation from the first five hits, the
\* extra nodes fetched in dict order, then the k best combined scores
SpreadStage(ex, G, hits, k, t) ==
    FetchNodes(ex.st,
               SortedIds(hits, hits \o ex.found,
                         spread_activation(G, SeqRange(Take(hits, 5)),
                                           SpreadingHops, SpreadingDecay), k),
               t)

\* MemoryManager.recall. hits is what search_by_vector (called without a
\* user filter) returned, best first, or <<>> when the query could not be
\* encoded or nothing matched; order is the iteration order of the
\* activation dict over the extra nodes.
MM_recall(st, G, own, hits, k, use_spreading, order, t) ==
    IF hits = <<>> THEN [st |-> st, ret |-> get_top_k(st.l1, k, "", own)]
    ELSE IF ~use_spreading THEN [st |-> st, ret |-> SeqRange(Take(hits, k))]
    ELSE SpreadStage(GetAll(st, order, t), G, hits, k, t)

\* -------------------------------------------------------------- actions
NoOp == [op |-> "none", id |-> 0, e |-> 0, wasInL1 |-> FALSE, found |-> FALSE,
         energy |-> 0, evicted |-> {}, returned |-> {}, completed |-> TRUE]

NoStore == [op |-> "none", id |-> 0, existed |-> FALSE, same |-> FALSE,
            version |-> 0, prev |-> <<>>, nhist |-> 0]

NoLink == [op |-> "none", source |-> 0, target |-> 0, link_type |-> "none",
           weight |-> 0, pre |-> <<>>, pruned |-> {}, incoming |-> 0]

NoSpread == [op |-> "none", starts |-> {}, hops |-> 0, decay |-> 0, result |-> <<>>]

Cur == OpState(l1_nodes, l2_rows, graph_nodes)

CurGraph == Graph(graph_nodes, graph_adj)

NoMsg == [op |-> "none", role |-> "none", key |-> 0, conflict |-> 0, higher |-> FALSE,
          obj |-> "", msg |-> <<>>, handled |-> FALSE, ret |-> FALSE,
          rows |-> <<>>, hist |-> <<>>, pend |-> <<>>]

CurPlug == PlugState(triples, history, pending)

NoRecall == [op |-> "none", user |-> "", result |-> {}, pre |-> <<>>, post |-> <<>>]

Loops == {"cleanup", "consolidation", "decay"}

NoLoopObs == [raised |-> [l \in Loops |-> FALSE], removed |-> {}, written |-> {},
              runRaised |-> FALSE, stopDuringRun |-> FALSE]

\* the LoopResult of a run that has not returned
NoResult == [state |-> "none", response |-> FALSE, iterations |-> 0,
             tool_calls_made |-> 0, tokens_used |-> 0, error |-> FALSE]

NoFac == [op |-> "none", id |-> 0, f |-> 0, rid |-> 0, existed |-> FALSE,
          wasInit |-> FALSE, l3_was |-> "unset", error |-> "none", touched |-> FALSE,
          l3attempt |-> FALSE, links |-> {}, pre |-> <<>>]

Commit(st) ==
    /\ l1_nodes' = st.l1
    /\ l2_rows' = st.l2
    /\ graph_nodes' = st.g
    /\ putLog' = st.log
    /\ ops' = ops + 1

NextId == Cardinality(used) + 1

\* the node created by this ingest belongs to the user who is current now
Ingested(id) ==
    [i \in (DOMAIN owner) \cup {id} |-> IF i = id THEN current_user ELSE owner[i]]

\* MemoryManager.ingest -> TierManager.store of a freshly encoded node
Store(imp, fail) ==
    /\ ops < MaxOps
    /\ NextId <= NumIds
    /\ LET node == [NewNode(NextId, now) EXCEPT !.energy = estimate_initial_energy(imp)]
           st == TM_store(Cur, node, fail)
       IN /\ Commit(st)
          /\ lastOp' = [NoOp EXCEPT !.op = "store", !.id = NextId, !.e = node.energy,
                                    !.energy = node.energy, !.found = TRUE,
                                    !.evicted = st.evicted, !.returned = st.returned,
                                    !.completed = (fail = "none")]
    /\ used' = used \cup {NextId}
    /\ lastLink' = NoLink
    /\ lastSpread' = NoSpread
    /\ owner' = Ingested(NextId)
    /\ UNCHANGED <<now, knowVars, graph_adj, plugVars, agentVars, current_user, lastRecall, loopVars, facVars>>

Get(id) ==
    /\ ops < MaxOps
    /\ LET r == TM_get(Cur, id, now)
       IN /\ Commit(r.st)
          /\ lastOp' = [NoOp EXCEPT !.op = "get", !.id = id,
                                    !.wasInL1 = (id \in L1Ids(l1_nodes)),
                                    !.found = (r.ret # NoNode),
                                    !.energy = r.ret.energy,
                                    !.evicted = r.st.evicted, !.returned = r.st.returned]
    /\ UNCHANGED <<now, used, knowVars, graphVars, plugVars, agentVars, userVars, loopVars, facVars>>

UpdateEnergy(id, e) ==
    /\ ops < MaxOps
    /\ LET r == TM_update_energy(Cur, id, e, now)
       IN /\ Commit(r.st)
          /\ lastOp' = [NoOp EXCEPT !.op = "update_energy", !.id = id, !.e = e,
                                    !.wasInL1 = (id \in L1Ids(l1_nodes)),
                                    !.found = r.ret,
                                    !.energy = e,
                                    !.evicted = r.st.evicted, !.returned = r.st.returned]
    /\ UNCHANGED <<now, used, knowVars, graphVars, plugVars, agentVars, userVars, loopVars, facVars>>

Delete(id) ==
    /\ ops < MaxOps
    /\ id \in L1Ids(l1_nodes) \cup L2Ids(l2_rows)
    /\ Commit(TM_delete(Cur, id))
    /\ graph_adj' = remove_node(CurGraph, id).adj
    /\ lastOp' = [NoOp EXCEPT !.op = "delete", !.id = id]
    /\ UNCHANGED <<now, used, knowVars, lastLink, lastSpread, plugVars, agentVars, userVars, loopVars, facVars>>

RunCleanup ==
    /\ ops < MaxOps
    /\ Commit(TM_run_cleanup(Cur, now))
    /\ lastOp' = [NoOp EXCEPT !.op = "cleanup",
                              !.evicted = L1Ids(l1_nodes) \ L1Ids(TM_run_cleanup(Cur, now).l1)]
    /\ UNCHANGED <<now, used, knowVars, graphVars, plugVars, agentVars, userVars, loopVars, facVars>>

RecordEvent(fb, rid) ==
    /\ ops < MaxOps
    /\ NextId <= NumIds
    /\ LET st == MM_record_event(Cur, NextId, fb, rid, now)
       IN /\ Commit(st)
          /\ lastOp' = [NoOp EXCEPT !.op = "record_event", !.id = rid, !.e = fb,
                                    !.wasInL1 = (rid \in L1Ids(l1_nodes)),
                                    !.found = (rid \in L2Ids(l2_rows)),
                                    !.energy = (IF rid \in L2Ids(l2_rows)
                                                THEN l2_rows[rid].energy ELSE 0),
                                    !.evicted = st.evicted, !.returned = st.returned]
    /\ used' = used \cup {NextId}
    /\ owner' = Ingested(NextId)
    /\ UNCHANGED <<now, knowVars, graphVars, plugVars, agentVars, current_user, lastRecall, loopVars, facVars>>

Tick ==
    /\ ops < MaxOps
    /\ now < MaxTime
    /\ now' = now + 1
    /\ ops' = ops + 1
    /\ UNCHANGED <<l1_nodes, l2_rows, graph_nodes, used, lastOp, putLog,
                   knowVars, graphVars, plugVars, agentVars, userVars, loopVars, facVars>>

Init ==
    /\ l1_nodes = <<>>
    /\ l2_rows = <<>>
    /\ graph_nodes = {}
    /\ now = 0
    /\ used = {}
    /\ ops = 0
    /\ lastOp = NoOp
    /\ putLog = NoPut
    /\ triples = <<>>
    /\ history = <<>>
    /\ objlog = <<>>
    /\ lastStore = NoStore
    /\ graph_adj = EmptyAdj
    /\ lastLink = NoLink
    /\ lastSpread = NoSpread
    /\ pending = <<>>
    /\ vector_ids = {}
    /\ tid = 0
    /\ lastMsg = NoMsg
    /\ current_user = "default"
    /\ owner = <<>>
    /\ lastRecall = NoRecall
    /\ tier_running = FALSE
    /\ energy_running = FALSE
    /\ loop_pc = [l \in Loops |-> "none"]
    /\ run_pc = "idle"
    /\ run_pending = <<>>
    /\ stop_requested = FALSE
    /\ loopObs = NoLoopObs
    /\ initialized = FALSE
    /\ tier_l3_available = "unset"
    /\ router_l3_available = FALSE
    /\ crystal_links = {}
    /\ recent_nodes = <<>>
    /\ pending_conflicts = <<>>
    /\ deleted = {}
    /\ agent_state = "idle"
    /\ iteration = 0
    /\ tool_calls_count = 0
    /\ total_tokens = 0
    /\ context = <<>>
    /\ agent_pc = "idle"
    /\ result = NoResult
    /\ got_final = FALSE
    /\ wlog = <<>>
    /\ lastFac = NoFac

NextTier ==
    \/ \E imp \in Importances, fail \in {"none", "l2put"} : Store(imp, fail)
    \/ \E id \in used : Get(id)
    \/ \E id \in used, e \in EnergyInputs : UpdateEnergy(id, e)
    \/ \E id \in used : Delete(id)
    \/ RunCleanup
    \/ \E fb \in Feedbacks, rid \in used : RecordEvent(fb, rid)
    \/ Tick

SpecTier == Init /\ [][NextTier]_vars

\* ------------------------------------------------------- graph actions
Incoming(adj, id) == {<<u, i>> \in NodeIds \X (1..NumIds) : i <= Len(adj[u]) /\ adj[u][i].target = id}

GraphStep(G) ==
    /\ ops' = ops + 1
    /\ graph_nodes' = G.nodes
    /\ graph_adj' = G.adj
    /\ lastOp' = NoOp
    /\ UNCHANGED <<now, used, putLog, knowVars, plugVars, agentVars, userVars, loopVars, facVars>>

\* L2GraphStorage.add_link
AddLink(source_id, target_id, link_type, weight) ==
    LET pre == graph_adj[source_id]
        afterPrune == IF Len(pre) >= MaxEdgesPerNode
                      THEN _prune_weakest_edge(CurGraph, source_id).adj[source_id]
                      ELSE pre
    IN /\ ops < MaxGraphOps
       /\ GraphStep(add_link(CurGraph, source_id, target_id, link_type, weight))
       /\ lastLink' = [NoLink EXCEPT !.op = "add_link", !.source = source_id,
                                     !.target = target_id, !.link_type = link_type,
                                     !.weight = weight, !.pre = pre,
                                     !.pruned = SeqRange(pre) \ SeqRange(afterPrune)]
       /\ lastSpread' = NoSpread
       /\ UNCHANGED <<l1_nodes, l2_rows>>

\* L2GraphStorage.update_link_weight
UpdateLinkWeight(source_id, target_id, new_weight) ==
    /\ ops < MaxGraphOps
    /\ has_edge(CurGraph, source_id, target_id)
    /\ GraphStep(update_link_weight(CurGraph, source_id, target_id, new_weight))
    /\ lastLink' = [NoLink EXCEPT !.op = "update_link_weight", !.source = source_id,
                                  !.target = target_id, !.weight = new_weight,
                                  !.pre = graph_adj[source_id]]
    /\ lastSpread' = NoSpread
    /\ UNCHANGED <<l1_nodes, l2_rows>>

\* L2GraphStorage.strengthen_link
StrengthenLink(source_id, target_id, boost) ==
    /\ ops < MaxGraphOps
    /\ has_edge(CurGraph, source_id, target_id)
    /\ GraphStep(strengthen_link(CurGraph, source_id, target_id, boost))
    /\ lastLink' = [NoLink EXCEPT !.op = "strengthen_link", !.source = source_id,
                                  !.target = target_id, !.weight = boost,
                                  !.pre = graph_adj[source_id]]
    /\ lastSpread' = NoSpread
    /\ UNCHANGED <<l1_nodes, l2_rows>>

\* MemoryManager.delete_node: router.remove_node_links, then TierManager.delete
DeleteNode(id) ==
    LET g1 == remove_node_links(CurGraph, id)
        st == TM_delete(OpState(l1_nodes, l2_rows, g1.nodes), id)
        g2 == remove_node(g1, id)
    IN /\ ops < MaxOps
       /\ id \in graph_nodes \cup L1Ids(l1_nodes) \cup L2Ids(l2_rows)
       /\ GraphStep(g2)
       /\ l1_nodes' = st.l1
       /\ l2_rows' = st.l2
       /\ lastLink' = [NoLink EXCEPT !.op = "delete_node", !.source = id,
                                     !.pre = graph_adj[id],
                                     !.incoming = Cardinality(Incoming(graph_adj, id))]
       /\ lastSpread' = NoSpread

\* L2GraphStorage.spread_activation
SpreadActivation(start_ids, max_hops, decay_factor) ==
    /\ ops < MaxGraphOps
    /\ start_ids \subseteq graph_nodes
    /\ GraphStep(CurGraph)
    /\ lastLink' = NoLink
    /\ lastSpread' = [op |-> "spread_activation", starts |-> start_ids, hops |-> max_hops,
                      decay |-> decay_factor,
                      result |-> spread_activation(CurGraph, start_ids, max_hops, decay_factor)]
    /\ UNCHANGED <<l1_nodes, l2_rows>>

NextGraph ==
    \/ \E s \in GraphIds, t \in GraphIds, l \in LinkInputs : AddLink(s, t, l[1], l[2])
    \/ \E s \in GraphIds, t \in GraphIds, w \in NewWeights : UpdateLinkWeight(s, t, w)
    \/ \E s \in GraphIds, t \in GraphIds, b \in Boosts : StrengthenLink(s, t, b)
    \/ \E start \in GraphIds, h \in HopInputs, d \in Decays : SpreadActivation({start}, h, d)

SpecGraph == Init /\ [][NextGraph]_vars

\* deleting stored, linked nodes through MemoryManager.delete_node
NextDelete ==
    \/ Store(80, "none")
    \/ \E s \in GraphIds, t \in GraphIds : AddLink(s, t, "temporal", 50)
    \/ \E id \in NodeIds : DeleteNode(id)

SpecDelete == Init /\ [][NextDelete]_vars

\* web/app.py switch_user
SetUser(user_id) ==
    /\ ops < MaxOps
    /\ user_id # current_user
    /\ current_user' = user_id
    /\ ops' = ops + 1
    /\ lastRecall' = NoRecall
    /\ UNCHANGED <<l1_nodes, l2_rows, graph_nodes, now, used, lastOp, putLog,
                   knowVars, graphVars, plugVars, agentVars, owner, loopVars, facVars>>

\* MemoryManager.get_working_memory
GetWorkingMemory(limit) ==
    /\ ops < MaxOps
    /\ ops' = ops + 1
    /\ lastRecall' = [NoRecall EXCEPT !.op = "get_working_memory", !.user = current_user,
                             !.result = MM_get_working_memory(l1_nodes, limit, owner)]
    /\ UNCHANGED <<l1_nodes, l2_rows, graph_nodes, now, used, lastOp, putLog,
                   knowVars, graphVars, plugVars, agentVars, current_user, owner, loopVars, facVars>>

\* the lists search_by_vector can hand to recall(top_k = k): up to 2k rows
HitInputs(k) ==
    UNION {Perms(S) : S \in {T \in SUBSET L2Ids(l2_rows) : Cardinality(T) <= 2 * k}}

\* the energy the tiers hold for each node: the L1 copy when there is one
StoredEnergy(st) ==
    [id \in L1Ids(st.l1) \cup L2Ids(st.l2) |->
        IF id \in L1Ids(st.l1) THEN L1Lookup(st.l1, id).energy ELSE st.l2[id].energy]

RecallStep(op, hits, k, use_spreading, order) ==
    LET r == MM_recall(Cur, CurGraph, owner, hits, k, use_spreading, order, now)
    IN /\ ops < MaxOps
       /\ Commit(r.st)
       /\ lastOp' = NoOp
       /\ lastRecall' = [op |-> op, user |-> current_user, result |-> r.ret,
                         pre |-> StoredEnergy(Cur), post |-> StoredEnergy(r.st)]
       /\ UNCHANGED <<now, used, knowVars, graphVars, plugVars, agentVars, current_user, owner, loopVars, facVars>>

\* MemoryManager.recall
Recall(hits, k, use_spreading, order) ==
    RecallStep("recall", hits, k, use_spreading, order)

\* MemoryManager.get_context: recall(current_input, top_k=limit), formatted
GetContext(hits, limit, order) ==
    RecallStep("get_context", hits, limit, TRUE, order)

NextUser ==
    \/ \E u \in Users : SetUser(u)
    \/ \E imp \in {30, 80} : Store(imp, "none")
    \/ \E s \in GraphIds : AddLink(s, 1, "temporal", 50)
    \/ \E limit \in WorkingLimits : GetWorkingMemory(limit)
    \/ \E k \in RecallLimits, sp \in BOOLEAN : \E hits \in HitInputs(k) :
          \E order \in Perms(IF sp THEN ExtraIds(CurGraph, hits) ELSE {}) :
              Recall(hits, k, sp, order)
    \/ \E k \in RecallLimits : \E hits \in HitInputs(k) :
          \E order \in Perms(ExtraIds(CurGraph, hits)) : GetContext(hits, k, order)

SpecUser == Init /\ [][NextUser]_vars


\* KnowledgeStore.store called with a triple from the extraction pipeline
KStore(subj, pred, obj, conf, user) ==
    LET t == NewTriple(Len(triples) + 1, subj, pred, obj, conf, user)
        hit == ConflictIdx(triples, t)
        old == IF hit = {} THEN t ELSE triples[CHOOSE k \in hit : TRUE]
    IN /\ Writes(triples) < MaxWrites
       /\ triples' = KS_store(triples, t)
       /\ history' = history
       /\ objlog' = LogWrite(objlog, old.id, obj)
       /\ lastStore' = [op |-> "store", id |-> old.id, existed |-> (hit # {}),
                        same |-> (hit # {} /\ old.object = obj),
                        version |-> old.version, prev |-> old.previous_values,
                        nhist |-> Len(HistoryOf(history, old.id))]
       /\ UNCHANGED <<tierVars, graphVars, plugVars, agentVars, userVars, loopVars, facVars>>

\* KnowledgeStore.update called by the confirmation path (confidence 1.0)
KUpdate(id, obj) ==
    LET r == KS_update(triples, history, id, obj, 10)
        old == triples[CHOOSE k \in RowIdxById(triples, id) : TRUE]
    IN /\ RowIdxById(triples, id) # {}
       /\ Writes(triples) < MaxWrites
       /\ triples' = r.rows
       /\ history' = r.hist
       /\ objlog' = LogWrite(objlog, id, obj)
       /\ lastStore' = [op |-> "update", id |-> id, existed |-> TRUE,
                        same |-> (old.object = obj),
                        version |-> old.version, prev |-> old.previous_values,
                        nhist |-> Len(HistoryOf(history, id))]
       /\ UNCHANGED <<tierVars, graphVars, plugVars, agentVars, userVars, loopVars, facVars>>

NextKnow ==
    \/ \E subj \in Subjects, pred \in Predicates, obj \in Objects,
          conf \in Confidences, user \in Users : KStore(subj, pred, obj, conf, user)
    \/ \E id \in 1..Len(triples), obj \in Objects : KUpdate(id, obj)

SpecKnow == Init /\ [][NextKnow]_vars


\* ------------------------------------------------------ plugin actions
PlugCommit(ps) ==
    /\ triples' = ps.rows
    /\ history' = ps.hist
    /\ pending' = ps.pend
    /\ UNCHANGED <<tierVars, graphVars, objlog, lastStore, userVars, loopVars, facVars,
                   agentVars>>

\* what the handler found before it ran: the tables and the pending map
Before(op) == [NoMsg EXCEPT !.op = op, !.rows = triples, !.hist = history, !.pend = pending]

\* KnowledgeLearningPlugin.process_message
ProcessMessage(role, subj, pred, obj, conf) ==
    LET t == NewTriple(tid + 1, subj, pred, obj, conf, "alice")
        r == process_message(CurPlug, role, t)
        c == check(triples, t)
    IN /\ tid < MaxMsgs
       /\ PlugCommit(r.ps)
       /\ vector_ids' = vector_ids \cup r.vectors
       /\ tid' = tid + 1
       /\ lastMsg' = [Before("process_message") EXCEPT
                         !.role = role, !.key = t.id, !.obj = obj, !.conflict = c,
                         !.higher = (c # 0 /\ t.confidence > triples[c].confidence)]

\* ConfirmationManager.add_pending(new_triple): an update queued without an
\* existing triple
AddPending(obj) ==
    LET t == NewTriple(tid + 1, "Python", "created_by", obj, 8, "alice")
    IN /\ tid < MaxMsgs
       /\ PlugCommit(PlugState(triples, history, add_pending(pending, t, NoTriple)))
       /\ tid' = tid + 1
       /\ lastMsg' = [Before("add_pending") EXCEPT !.key = t.id, !.obj = obj]
       /\ UNCHANGED vector_ids

\* KnowledgeLearningPlugin.confirm_update(key, confirmed)
ConfirmUpdate(key, confirmed) ==
    LET r == IF confirmed THEN confirm(CurPlug, key) ELSE reject(CurPlug, key)
    IN /\ PendingIdx(pending, key) # {}
       /\ PlugCommit(r.ps)
       /\ lastMsg' = [Before(IF confirmed THEN "confirm" ELSE "reject") EXCEPT
                         !.key = key, !.ret = r.ret]
       /\ UNCHANGED <<tid, vector_ids>>

\* KnowledgeLearningPlugin.process_confirmation_response
ProcessConfirmationResponse(msg) ==
    LET r == process_confirmation_response(CurPlug, msg)
    IN /\ pending # <<>>
       /\ PlugCommit(r.ps)
       /\ lastMsg' = [Before("response") EXCEPT !.msg = msg, !.handled = r.handled]
       /\ UNCHANGED <<tid, vector_ids>>

NextPlugin ==
    \/ \E role \in Roles, subj \in Subjects, pred \in Predicates, obj \in Objects,
          conf \in Confidences : ProcessMessage(role, subj, pred, obj, conf)
    \/ \E obj \in Objects : AddPending(obj)
    \/ \E key \in 1..MaxMsgs, confirmed \in BOOLEAN : ConfirmUpdate(key, confirmed)
    \/ \E msg \in Messages : ProcessConfirmationResponse(msg)

SpecPlugin == Init /\ [][NextPlugin]_vars


\* ------------------------------------------------------ background loops

TierLoops == {"cleanup", "consolidation"}

\* the _running flag a loop's while condition reads
RunningOf(l) == IF l = "decay" THEN energy_running ELSE tier_running

\* no loop body is between two suspension points: the event loop can run another coroutine
NoRunInProgress == \A l \in Loops : loop_pc[l] # "body"

\* variant in which every await inside a loop body hands control to the event loop
Suspends_EveryAwait(pc) == TRUE

\* the places where a loop task is suspended: before its first step and in asyncio.sleep
Suspends(pc) == pc \in {"start", "sleep"}

\* variant in which the exception of an iteration leaves the while loop
AfterError_Propagates(l) == "done"

\* except Exception: print, then fall through to asyncio.sleep
AfterError(l) == "sleep"

StaleSeq(l1, t) ==
    LET stale(n) == n.last_accessed < t - TtlTicks
    IN SelectSeq(l1, stale)

LowSeq(l1) ==
    LET low(n) == n.energy < L1MinEnergy
    IN SelectSeq(l1, low)

ColdSeq(l1) ==
    LET cold(n) == n.energy < L1ToL2Threshold
    IN SelectSeq(l1, cold)

SeqIds(q) == {q[i].id : i \in 1..Len(q)}

DecayAll(l1, t) == [i \in 1..Len(l1) |-> [l1[i] EXCEPT !.energy = calculate_decay(l1[i], t)]]

Raise(l) ==
    /\ loop_pc' = [loop_pc EXCEPT ![l] = AfterError(l)]
    /\ run_pc' = IF l = "cleanup" THEN "idle" ELSE run_pc
    /\ run_pending' = IF l = "cleanup" THEN <<>> ELSE run_pending

\* MemoryManager starts the TierManager loops; nothing in the repository starts
\* the decay loop next to them, so a behaviour has one or the other
StartBackgroundTasks ==
    /\ NoRunInProgress
    /\ \A l \in Loops : loop_pc[l] = "none"
    /\ tier_running' = TRUE
    /\ loop_pc' = [loop_pc EXCEPT !["cleanup"] = "start", !["consolidation"] = "start"]
    /\ UNCHANGED <<tierVars, knowVars, graphVars, plugVars, agentVars, userVars, facVars,
                   energy_running, run_pc, run_pending, stop_requested, loopObs>>

StartDecayLoop ==
    /\ NoRunInProgress
    /\ \A l \in Loops : loop_pc[l] = "none"
    /\ energy_running' = TRUE
    /\ loop_pc' = [loop_pc EXCEPT !["decay"] = "start"]
    /\ UNCHANGED <<tierVars, knowVars, graphVars, plugVars, agentVars, userVars, facVars,
                   tier_running, run_pc, run_pending, stop_requested, loopObs>>

\* the event loop resumes a suspended loop task: the while condition is read again
Wake(l) ==
    /\ NoRunInProgress
    /\ loop_pc[l] \in {"start", "sleep"}
    /\ loop_pc' = [loop_pc EXCEPT ![l] = IF RunningOf(l) THEN "body" ELSE "done"]
    /\ run_pc' = IF l = "cleanup" /\ RunningOf(l) THEN "stale" ELSE run_pc
    /\ loopObs' = IF l = "cleanup"
                  THEN [NoLoopObs EXCEPT !.raised = [loopObs.raised EXCEPT ![l] = FALSE]]
                  ELSE [loopObs EXCEPT !.raised[l] = FALSE]
    /\ UNCHANGED <<tierVars, knowVars, graphVars, plugVars, agentVars, userVars, facVars,
                   tier_running, energy_running, run_pending, stop_requested>>

CleanupStale ==
    /\ loop_pc["cleanup"] = "body"
    /\ run_pc = "stale"
    /\ l1_nodes' = L1Remove(l1_nodes, SeqIds(StaleSeq(l1_nodes, now)))
    /\ run_pending' = StaleSeq(l1_nodes, now)
    /\ run_pc' = "stale_put"
    /\ loopObs' = [loopObs EXCEPT !.removed = @ \cup SeqIds(StaleSeq(l1_nodes, now))]
    /\ UNCHANGED <<l2_rows, graph_nodes, now, used, ops, lastOp, putLog, knowVars,
                   graphVars, plugVars, agentVars, userVars, facVars, tier_running,
                   energy_running, loop_pc, stop_requested>>

CleanupLow ==
    /\ loop_pc["cleanup"] = "body"
    /\ run_pc = "low"
    /\ l1_nodes' = L1Remove(l1_nodes, SeqIds(LowSeq(l1_nodes)))
    /\ run_pending' = LowSeq(l1_nodes)
    /\ run_pc' = "low_put"
    /\ loopObs' = [loopObs EXCEPT !.removed = @ \cup SeqIds(LowSeq(l1_nodes))]
    /\ UNCHANGED <<l2_rows, graph_nodes, now, used, ops, lastOp, putLog, knowVars,
                   graphVars, plugVars, agentVars, userVars, facVars, tier_running,
                   energy_running, loop_pc, stop_requested>>

\* one turn of "for node in ...: node.tier = 'L2'; await self.l2_vector.put(node)"
CleanupPut(fail) ==
    /\ loop_pc["cleanup"] = "body"
    /\ run_pc \in {"stale_put", "low_put"}
    /\ IF run_pending = <<>>
       THEN /\ ~fail
            /\ run_pc' = IF run_pc = "stale_put" THEN "low" ELSE "decay"
            /\ UNCHANGED <<l2_rows, run_pending, loop_pc, loopObs>>
       ELSE IF fail
       THEN /\ Raise("cleanup")
            /\ loopObs' = [loopObs EXCEPT !.raised["cleanup"] = TRUE, !.runRaised = TRUE]
            /\ UNCHANGED l2_rows
       ELSE /\ l2_rows' = L2PutAllAsL2(l2_rows, {Head(run_pending)})
            /\ run_pending' = Tail(run_pending)
            /\ loopObs' = [loopObs EXCEPT !.written = @ \cup {Head(run_pending).id}]
            /\ UNCHANGED <<run_pc, loop_pc>>
    /\ UNCHANGED <<l1_nodes, graph_nodes, now, used, ops, lastOp, putLog, knowVars,
                   graphVars, plugVars, agentVars, userVars, facVars, tier_running,
                   energy_running, stop_requested>>

CleanupDecay ==
    /\ loop_pc["cleanup"] = "body"
    /\ run_pc = "decay"
    /\ l1_nodes' = DecayAll(l1_nodes, now)
    /\ run_pending' = ColdSeq(DecayAll(l1_nodes, now))
    /\ run_pc' = "demote"
    /\ UNCHANGED <<l2_rows, graph_nodes, now, used, ops, lastOp, putLog, knowVars,
                   graphVars, plugVars, agentVars, userVars, facVars, tier_running,
                   energy_running, loop_pc, stop_requested, loopObs>>

\* one turn of "if energy < l1_to_l2_threshold: await self._demote_from_l1(node_id)"
CleanupDemote(fail) ==
    /\ loop_pc["cleanup"] = "body"
    /\ run_pc = "demote"
    /\ IF run_pending = <<>>
       THEN /\ ~fail
            /\ loop_pc' = [loop_pc EXCEPT !["cleanup"] = "sleep"]
            /\ run_pc' = "idle"
            /\ UNCHANGED <<l1_nodes, l2_rows, run_pending, loopObs>>
       ELSE IF fail
       THEN /\ Raise("cleanup")
            /\ l1_nodes' = L1Remove(l1_nodes, {Head(run_pending).id})
            /\ loopObs' = [loopObs EXCEPT !.raised["cleanup"] = TRUE, !.runRaised = TRUE,
                                          !.removed = @ \cup {Head(run_pending).id}]
            /\ UNCHANGED l2_rows
       ELSE /\ l1_nodes' = _demote_from_l1(Cur, Head(run_pending).id, now).l1
            /\ l2_rows' = _demote_from_l1(Cur, Head(run_pending).id, now).l2
            /\ run_pending' = Tail(run_pending)
            /\ loopObs' = [loopObs EXCEPT !.removed = @ \cup {Head(run_pending).id},
                                          !.written = @ \cup {Head(run_pending).id}]
            /\ UNCHANGED <<run_pc, loop_pc>>
    /\ UNCHANGED <<graph_nodes, now, used, ops, lastOp, putLog, knowVars,
                   graphVars, plugVars, agentVars, userVars, facVars, tier_running,
                   energy_running, stop_requested>>

\* _run_consolidation: its body is "pass"
RunConsolidation ==
    /\ loop_pc["consolidation"] = "body"
    /\ loop_pc' = [loop_pc EXCEPT !["consolidation"] = "sleep"]
    /\ UNCHANGED <<tierVars, knowVars, graphVars, plugVars, agentVars, userVars, facVars,
                   tier_running, energy_running, run_pc, run_pending,
                   stop_requested, loopObs>>

\* one iteration of decay_loop; the two callbacks are the caller's (here: the
\* nodes of L1), and either of them may raise
DecayIteration(fail) ==
    /\ loop_pc["decay"] = "body"
    /\ IF fail = "get"
       THEN /\ Raise("decay")
            /\ loopObs' = [loopObs EXCEPT !.raised["decay"] = TRUE]
            /\ UNCHANGED l1_nodes
       ELSE IF fail = "update"
       THEN /\ l1_nodes # <<>>
            /\ Raise("decay")
            /\ l1_nodes' = DecayAll(l1_nodes, now)
            /\ loopObs' = [loopObs EXCEPT !.raised["decay"] = TRUE]
       ELSE /\ l1_nodes' = DecayAll(l1_nodes, now)
            /\ loop_pc' = [loop_pc EXCEPT !["decay"] = "sleep"]
            /\ UNCHANGED <<run_pc, run_pending, loopObs>>
    /\ UNCHANGED <<l2_rows, graph_nodes, now, used, ops, lastOp, putLog, knowVars,
                   graphVars, plugVars, agentVars, userVars, facVars, tier_running,
                   energy_running, stop_requested>>

\* a caller's stop_background_tasks() becomes ready to run
StopRequest ==
    /\ tier_running
    /\ ~stop_requested
    /\ stop_requested' = TRUE
    /\ loopObs' = [loopObs EXCEPT !.stopDuringRun = (loop_pc["cleanup"] = "body")]
    /\ UNCHANGED <<tierVars, knowVars, graphVars, plugVars, agentVars, userVars, facVars,
                   tier_running, energy_running, loop_pc, run_pc, run_pending>>

Cancelled(pc) == IF pc \in {"start", "sleep", "body"} THEN "cancelled" ELSE pc

StopBackgroundTasks ==
    /\ stop_requested
    /\ tier_running
    /\ \A l \in Loops : loop_pc[l] = "body" => Suspends(loop_pc[l])
    /\ tier_running' = FALSE
    /\ stop_requested' = FALSE
    /\ loop_pc' = [l \in Loops |-> IF l \in TierLoops THEN Cancelled(loop_pc[l]) ELSE loop_pc[l]]
    /\ run_pc' = "idle"
    /\ run_pending' = <<>>
    /\ UNCHANGED <<tierVars, knowVars, graphVars, plugVars, agentVars, userVars, facVars,
                   energy_running, loopObs>>

StopDecayLoop ==
    /\ energy_running
    /\ \A l \in Loops : loop_pc[l] = "body" => Suspends(loop_pc[l])
    /\ energy_running' = FALSE
    /\ loop_pc' = [loop_pc EXCEPT !["decay"] = Cancelled(@)]
    /\ UNCHANGED <<tierVars, knowVars, graphVars, plugVars, agentVars, userVars, facVars,
                   tier_running, run_pc, run_pending, stop_requested, loopObs>>

LoopStore(imp) ==
    /\ NoRunInProgress
    /\ ops < MaxLoopOps
    /\ Store(imp, "none")

\* time passes between two callbacks of the event loop
LoopTick ==
    /\ NoRunInProgress
    /\ now < MaxTime
    /\ now' = now + 1
    /\ UNCHANGED <<l1_nodes, l2_rows, graph_nodes, used, ops, lastOp, putLog,
                   knowVars, graphVars, plugVars, agentVars, userVars, loopVars, facVars>>

LoopStep ==
    \/ \E l \in Loops : Wake(l)
    \/ CleanupStale
    \/ CleanupLow
    \/ \E fail \in BOOLEAN : CleanupPut(fail)
    \/ CleanupDecay
    \/ \E fail \in BOOLEAN : CleanupDemote(fail)
    \/ RunConsolidation
    \/ \E fail \in {"none", "get", "update"} : DecayIteration(fail)

NextLoop ==
    \/ LoopStore(60)
    \/ LoopTick
    \/ StartBackgroundTasks
    \/ StartDecayLoop
    \/ StopRequest
    \/ StopBackgroundTasks
    \/ StopDecayLoop
    \/ LoopStep

SpecLoop == Init /\ [][NextLoop]_vars

\* the event loop runs every ready task: a loop body that is running goes on, and a
\* sleeping loop is resumed when its timer fires
SpecLoopFair ==
    /\ Init
    /\ [][NextLoop]_vars
    /\ \A l \in Loops : SF_vars(Wake(l))
    /\ WF_vars(CleanupStale) /\ WF_vars(CleanupLow) /\ WF_vars(CleanupDecay)
    /\ WF_vars(\E fail \in BOOLEAN : CleanupPut(fail))
    /\ WF_vars(\E fail \in BOOLEAN : CleanupDemote(fail))
    /\ WF_vars(RunConsolidation)
    /\ WF_vars(\E fail \in {"none", "get", "update"} : DecayIteration(fail))

\* ------------------------------------------------------ MemoryManager façade

TemporalWindow == 0
MaxTemporalLinks == 5
SemanticSimilarity == 90
CausalConfidenceThreshold == 80
FacFeedbacks == {-10, 5, 10}

LinkKey(s, t, ty) == <<s, t, ty>>

CrystalKeys(cl) == {LinkKey(r.source, r.target, r.link_type) : r \in cl}

\* INSERT ... ON CONFLICT (source_id, target_id, link_type) DO UPDATE
store_link(cl, s, t, ty, w) ==
    {r \in cl : LinkKey(r.source, r.target, r.link_type) # LinkKey(s, t, ty)}
        \cup {[source |-> s, target |-> t, link_type |-> ty, weight |-> w]}

\* variant of the router's guard that writes to L3 whatever the flag says
ShouldPersist_Always(avail) == TRUE

\* "if self._l3_available and self._l3": both are set together by set_l3_storage
ShouldPersist(avail) == avail

\* rs is the router's view: the graph, crystal_links, the links made by this
\* call and whether the call tried to write L3
_persist_link(rs, s, t, ty, w, avail) ==
    [g |-> add_link(rs.g, s, t, ty, w),
     cl |-> IF ShouldPersist(avail) THEN store_link(rs.cl, s, t, ty, w) ELSE rs.cl,
     made |-> rs.made \cup {LinkKey(s, t, ty)},
     attempt |-> rs.attempt \/ ShouldPersist(avail)]

\* time is counted in ticks of the L1 ttl, the window is shorter than a tick:
\* nodes of the same tick are inside it, at distance 0
_temporal_weight(ta, tb) ==
    IF ta = tb THEN 100 ELSE 10

TemporalTargets(recent, id, t) ==
    LET inWindow(e) == e.ts >= t - TemporalWindow /\ e.id # id
    IN Take(SelectSeq(recent, inWindow), MaxTemporalLinks)

RECURSIVE _create_temporal_links(_, _, _, _, _)
_create_temporal_links(rs, targets, id, t, avail) ==
    IF targets = <<>> THEN rs
    ELSE _create_temporal_links(
             _persist_link(rs, id, Head(targets).id, "temporal",
                           _temporal_weight(t, Head(targets).ts), avail),
             Tail(targets), id, t, avail)

\* sem is the set of context nodes whose cosine similarity reaches the threshold
RECURSIVE _create_semantic_links(_, _, _, _)
_create_semantic_links(rs, sem, id, avail) ==
    IF sem \ {id} = {} THEN rs
    ELSE LET c == CHOOSE c \in sem \ {id} : TRUE
         IN _create_semantic_links(
                _persist_link(rs, id, c, "semantic", SemanticSimilarity, avail),
                sem \ {c}, id, avail)

route_new_node(rs, recent, id, t, sem, avail) ==
    _create_semantic_links(
        _create_temporal_links(rs, TemporalTargets(recent, id, t), id, t, avail),
        sem, id, avail)

_update_recent_nodes(recent, id, t) == Append(recent, [id |-> id, ts |-> t])

\* confidence is |feedback|; fb is feedback in tenths
create_causal_link(rs, cause, effect, fb, avail) ==
    LET confidence == 10 * (IF fb < 0 THEN -fb ELSE fb)
    IN IF confidence < CausalConfidenceThreshold THEN rs
       ELSE _persist_link(rs, cause, effect, "causal", confidence, avail)

\* L3CrystalStorage has no get_all_links: the call raises, the handler prints
\* the error and the graph stays as it was
_restore_graph_from_l3(G, cl) == G

\* connect_all: what it leaves in _l3_available and in the graph
connect_all(G, cl, l3ok) ==
    [avail |-> IF l3ok THEN "yes" ELSE "no",
     g |-> IF l3ok THEN _restore_graph_from_l3(G, cl) ELSE G]

\* _ensure_initialized: initialize() when the flag is not set, nothing otherwise
_ensure_initialized(l3ok) ==
    IF initialized THEN [avail |-> tier_l3_available, g |-> CurGraph, error |-> "none"]
    ELSE [avail |-> connect_all(CurGraph, crystal_links, l3ok).avail,
          g |-> connect_all(CurGraph, crystal_links, l3ok).g,
          error |-> "none"]

\* the stores TierManager.store writes, in the order of its statements
TM_store_writes(node) ==
    (IF node.energy >= L1EnergyThreshold THEN <<"L1">> ELSE <<>>) \o <<"L2V", "L2G">>

Router(G, cl) == [g |-> G, cl |-> cl, made |-> {}, attempt |-> FALSE]

FacObs(op, id, f, rid, existed, rs) ==
    [NoFac EXCEPT !.op = op, !.id = id, !.f = f, !.rid = rid, !.existed = existed,
                  !.wasInit = initialized, !.l3_was = tier_l3_available,
                  !.touched = TRUE, !.l3attempt = rs.attempt, !.links = rs.made]

FacCommit(st, rs, ei, obs) ==
    /\ ops < MaxFacOps
    /\ l1_nodes' = st.l1
    /\ l2_rows' = st.l2
    /\ putLog' = st.log
    /\ graph_nodes' = rs.g.nodes
    /\ graph_adj' = rs.g.adj
    /\ crystal_links' = rs.cl
    /\ tier_l3_available' = ei.avail
    /\ initialized' = TRUE
    /\ lastFac' = [obs EXCEPT !.error = ei.error]
    /\ ops' = ops + 1
    /\ lastOp' = NoOp
    /\ lastLink' = NoLink
    /\ lastSpread' = NoSpread
    /\ UNCHANGED <<now, knowVars, plugVars, agentVars, current_user, lastRecall, loopVars,
                   router_l3_available>>

\* ConflictNode.id is a fresh uuid: one id per (existing, new) pair
ConflictId(node_a_id, node_b_id) == 10 * node_a_id + node_b_id

\* ConflictChecker.check_conflicts: one signal for each existing node the
\* checker reports as conflicting, conf being the set of those nodes
RECURSIVE check_conflicts(_, _)
check_conflicts(new_id, conf) ==
    IF conf \ {new_id} = {} THEN <<>>
    ELSE LET a == CHOOSE x \in conf \ {new_id} : \A y \in conf \ {new_id} : x <= y
         IN <<[id |-> ConflictId(a, new_id), node_a_id |-> a, node_b_id |-> new_id]>>
            \o check_conflicts(new_id, conf \ {a})

ResolveActions == {"keep_new", "keep_old", "ignore"}

\* MemoryManager.resolve_conflict on the stores st, the graph G and the queue
resolve_conflict(st, G, queue, conflict_id, action) ==
    LET idx == {i \in 1..Len(queue) : queue[i].id = conflict_id}
    IN IF idx = {} THEN [st |-> st, g |-> G, queue |-> queue, gone |-> {}, ret |-> FALSE]
       ELSE LET i == CHOOSE k \in idx : \A j \in idx : k <= j
                victim == IF action = "keep_new" THEN {queue[i].node_a_id}
                          ELSE IF action = "keep_old" THEN {queue[i].node_b_id}
                          ELSE {}
                id == CHOOSE v \in victim : TRUE
            IN [st |-> IF victim = {} THEN st ELSE TM_delete(st, id),
                g |-> IF victim = {} THEN G ELSE remove_node(G, id),
                queue |-> RemoveAt(queue, i),
                gone |-> victim,
                ret |-> TRUE]

\* the first call of a connected manager needs no L3 outcome
L3Outcomes == IF initialized THEN {TRUE} ELSE BOOLEAN

FInitialize(l3ok) ==
    /\ ~initialized
    /\ FacCommit(Cur, Router(_ensure_initialized(l3ok).g, crystal_links),
                 _ensure_initialized(l3ok),
                 [NoFac EXCEPT !.op = "initialize", !.l3_was = tier_l3_available])
    /\ UNCHANGED <<used, owner, recent_nodes, pending_conflicts, deleted, wlog>>

FIngest(imp, sem, conf, l3ok) ==
    /\ NextId <= NumIds
    /\ sem \subseteq L2Ids(l2_rows)
    /\ conf \subseteq L2Ids(l2_rows)
    /\ Len(pending_conflicts) + Cardinality(conf) <= MaxConflicts
    /\ pending_conflicts' = pending_conflicts \o check_conflicts(NextId, conf)
    /\ UNCHANGED deleted
    /\ LET ei == _ensure_initialized(l3ok)
           node == [NewNode(NextId, now) EXCEPT !.energy = estimate_initial_energy(imp)]
           st == TM_store(Cur, node, "none")
           rs == route_new_node(Router(Graph(st.g, ei.g.adj), crystal_links),
                                recent_nodes, NextId, now, sem, router_l3_available)
       IN /\ FacCommit(st, rs, ei, FacObs("ingest", NextId, 0, 0, FALSE, rs))
          /\ wlog' = TM_store_writes(node)
    /\ recent_nodes' = _update_recent_nodes(recent_nodes, NextId, now)
    /\ used' = used \cup {NextId}
    /\ owner' = Ingested(NextId)

FRecordEvent(fb, rid, l3ok) ==
    /\ NextId <= NumIds
    /\ LET ei == _ensure_initialized(l3ok)
           st == MM_record_event(Cur, NextId, fb, rid, now)
           existed == rid \in L1Ids(l1_nodes) \cup L2Ids(l2_rows)
           r1 == route_new_node(Router(Graph(st.g, ei.g.adj), crystal_links),
                                recent_nodes, NextId, now, {}, router_l3_available)
           rs == IF existed /\ fb > 0
                 THEN create_causal_link(r1, rid, NextId, fb, router_l3_available)
                 ELSE r1
       IN /\ FacCommit(st, rs, ei, FacObs("record_event", NextId, fb, rid, existed, rs))
          /\ wlog' = TM_store_writes([NewNode(NextId, now) EXCEPT
                         !.energy = estimate_initial_energy(
                                        50 + 5 * (IF fb < 0 THEN -fb ELSE fb))])
    /\ UNCHANGED <<pending_conflicts, deleted>>
    /\ recent_nodes' = _update_recent_nodes(recent_nodes, NextId, now)
    /\ used' = used \cup {NextId}
    /\ owner' = Ingested(NextId)

FGetNode(id, l3ok) ==
    /\ LET ei == _ensure_initialized(l3ok)
           rs == Router(ei.g, crystal_links)
       IN FacCommit(TM_get(Cur, id, now).st, rs, ei,
                    FacObs("get_node", id, 0, 0, id \in L2Ids(l2_rows), rs))
    /\ wlog' = <<>>
    /\ UNCHANGED <<used, owner, recent_nodes, pending_conflicts, deleted>>

FDeleteNode(id, l3ok) ==
    /\ LET ei == _ensure_initialized(l3ok)
           g1 == remove_node_links(ei.g, id)
           st == TM_delete(OpState(l1_nodes, l2_rows, g1.nodes), id)
           rs == Router(remove_node(g1, id), crystal_links)
       IN FacCommit(st, rs, ei,
                    FacObs("delete_node", id, 0, 0, id \in L2Ids(l2_rows), rs))
    /\ wlog' = <<>>
    /\ recent_nodes' = SelectSeq(recent_nodes, LAMBDA e : e.id # id)
    /\ deleted' = deleted \cup ({id} \cap used)
    /\ UNCHANGED <<used, owner, pending_conflicts>>

FRecall(hits, order, l3ok) ==
    /\ LET ei == _ensure_initialized(l3ok)
           rs == Router(ei.g, crystal_links)
       IN FacCommit(MM_recall(Cur, ei.g, owner, hits, 1, TRUE, order, now).st, rs, ei,
                    FacObs("recall", 0, 0, 0, FALSE, rs))
    /\ wlog' = <<>>
    /\ UNCHANGED <<used, owner, recent_nodes, pending_conflicts, deleted>>

\* MemoryManager.resolve_conflict(conflict_id, action): no _ensure_initialized.
\* The queue bounds the call (a known id shortens it, an unknown id changes
\* nothing), so it takes no operation from the budget.
FResolveConflict(conflict_id, action) ==
    LET r == resolve_conflict(Cur, CurGraph, pending_conflicts, conflict_id, action)
    IN /\ ops < MaxFacOps
       /\ l1_nodes' = r.st.l1
       /\ l2_rows' = r.st.l2
       /\ graph_nodes' = r.g.nodes
       /\ graph_adj' = r.g.adj
       /\ pending_conflicts' = r.queue
       /\ deleted' = deleted \cup r.gone
       /\ lastFac' = [NoFac EXCEPT !.op = "resolve_conflict", !.id = conflict_id,
                                   !.existed = r.ret, !.wasInit = initialized,
                                   !.l3_was = tier_l3_available,
                                   !.pre = IF r.ret THEN <<>>
                                           ELSE [l1 |-> l1_nodes, l2 |-> l2_rows,
                                                 g |-> CurGraph,
                                                 queue |-> pending_conflicts]]
       /\ wlog' = <<>>
       /\ lastOp' = NoOp
       /\ lastLink' = NoLink
       /\ lastSpread' = NoSpread
       /\ UNCHANGED <<now, used, ops, putLog, knowVars, plugVars, agentVars, userVars, loopVars,
                      initialized, tier_l3_available, router_l3_available,
                      crystal_links, recent_nodes>>

\* one run of the cleanup loop of a connected manager
FCleanup ==
    /\ initialized
    /\ LET rs == Router(CurGraph, crystal_links)
       IN FacCommit(TM_run_cleanup(Cur, now), rs, _ensure_initialized(TRUE),
                    [FacObs("cleanup", 0, 0, 0, FALSE, rs) EXCEPT !.touched = TRUE])
    /\ wlog' = <<>>
    /\ UNCHANGED <<used, owner, recent_nodes, pending_conflicts, deleted>>

\* the process ends and a new MemoryManager is constructed: L1, the graph (no
\* persist_path) and the router's recent list are gone, Milvus and Postgres stay
Restart ==
    /\ ops < MaxFacOps
    /\ initialized
    /\ l1_nodes' = <<>>
    /\ graph_nodes' = {}
    /\ graph_adj' = EmptyAdj
    /\ recent_nodes' = <<>>
    /\ pending_conflicts' = <<>>
    /\ initialized' = FALSE
    /\ tier_l3_available' = "unset"
    /\ router_l3_available' = FALSE
    /\ wlog' = <<>>
    /\ lastFac' = [NoFac EXCEPT !.op = "restart"]
    /\ ops' = ops + 1
    /\ lastOp' = NoOp
    /\ lastLink' = NoLink
    /\ lastSpread' = NoSpread
    /\ UNCHANGED <<l2_rows, now, used, putLog, knowVars, plugVars, agentVars, userVars,
                   loopVars, crystal_links, deleted>>

FacTick ==
    /\ now < MaxTime
    /\ ops < MaxFacOps
    /\ now' = now + 1
    /\ ops' = ops + 1
    /\ UNCHANGED <<l1_nodes, l2_rows, graph_nodes, used, lastOp, putLog,
                   knowVars, graphVars, plugVars, agentVars, userVars, loopVars, facVars>>

NextFacade ==
    \/ \E l3ok \in L3Outcomes : FInitialize(l3ok)
    \/ \E l3ok \in L3Outcomes, imp \in {30, 60}, sem \in {{}, {1}}, conf \in {{}, {1}} :
          FIngest(imp, sem, conf, l3ok)
    \/ \E l3ok \in L3Outcomes, fb \in FacFeedbacks, rid \in {1, 2} : FRecordEvent(fb, rid, l3ok)
    \/ \E l3ok \in L3Outcomes : FGetNode(1, l3ok)
    \/ \E l3ok \in L3Outcomes : FDeleteNode(1, l3ok)
    \/ \E l3ok \in L3Outcomes : \E hits \in {<<>>} \cup {<<i>> : i \in L2Ids(l2_rows)} :
          \E order \in Perms(ExtraIds(_ensure_initialized(l3ok).g, hits)) :
              FRecall(hits, order, l3ok)
    \/ \E c \in {pending_conflicts[i].id : i \in 1..Len(pending_conflicts)} \cup {0},
          action \in ResolveActions : FResolveConflict(c, action)
    \/ FCleanup
    \/ Restart
    \/ FacTick

SpecFacade == Init /\ [][NextFacade]_vars

\* ------------------------------------------------------------ AgentLoop
\* LoopConfig.max_iterations and max_tool_calls_per_turn
max_iterations == MaxIterations
MaxToolCallsPerTurn == 10

\* what the LLM answers in one iteration; an error is any exception raised
\* inside the try block
Responses == {"tool_calls", "final", "error"}
ToolCallCounts == {1, 2}
TokenCounts == {1, 2}

AgentLoopState(st, it, tc, tok, ctx, pc, res, fin) ==
    [state |-> st, iteration |-> it, tool_calls_count |-> tc, total_tokens |-> tok,
     context |-> ctx, pc |-> pc, result |-> res, got_final |-> fin]

CurAgent ==
    AgentLoopState(agent_state, iteration, tool_calls_count, total_tokens, context,
                   agent_pc, result, got_final)

LoopResult(a, st, has_text, err) ==
    [state |-> st, response |-> has_text, iterations |-> a.iteration,
     tool_calls_made |-> a.tool_calls_count, tokens_used |-> a.total_tokens,
     error |-> err]

\* _execute_tools: a tool runs, and adds its result to the context, until the
\* safety limit of the turn is hit
ToolsRun(count, it, n) == Min(n, Max(0, MaxToolCallsPerTurn * it - count))

_execute_tools(a, n) ==
    LET k == ToolsRun(a.tool_calls_count, a.iteration, n)
    IN [a EXCEPT !.tool_calls_count = @ + k,
                 !.context = @ \o [i \in 1..k |-> "tool"]]

\* the statements after the while loop: the max-iterations check and the return
AfterWhile(a, has_text) ==
    LET st == IF a.iteration >= max_iterations THEN "max_iterations" ELSE a.state
    IN [a EXCEPT !.state = st, !.pc = "returned",
                 !.result = LoopResult(a, st, has_text, FALSE)]

\* the head of AgentLoop.run up to the first test of the while condition
run(a) ==
    LET a0 == [a EXCEPT !.state = "thinking", !.iteration = 0, !.tool_calls_count = 0,
                        !.total_tokens = 0, !.context = Append(@, "user")]
    IN IF a0.iteration < max_iterations THEN [a0 EXCEPT !.pc = "loop"]
       ELSE AfterWhile(a0, FALSE)

\* one pass through the body of the while loop: the LLM raises, or answers
\* with tokens used and either n tool calls or a final response
run_iteration(a, resp, n, tokens) ==
    LET a1 == [a EXCEPT !.iteration = @ + 1]
        a2 == [a1 EXCEPT !.total_tokens = @ + tokens]
    IN IF resp = "error"
       THEN [a1 EXCEPT !.state = "error", !.pc = "returned",
                       !.result = LoopResult(a1, "error", FALSE, TRUE)]
       ELSE IF resp = "tool_calls"
       THEN LET a3 == [_execute_tools([a2 EXCEPT !.context = Append(@, "assistant_tool_calls")], n)
                          EXCEPT !.state = "thinking"]
            IN IF a3.iteration < max_iterations THEN a3 ELSE AfterWhile(a3, FALSE)
       ELSE AfterWhile([a2 EXCEPT !.state = "completed", !.got_final = TRUE,
                                  !.context = Append(@, "assistant")], TRUE)

AgentCommit(a) ==
    /\ agent_state' = a.state
    /\ iteration' = a.iteration
    /\ tool_calls_count' = a.tool_calls_count
    /\ total_tokens' = a.total_tokens
    /\ context' = a.context
    /\ agent_pc' = a.pc
    /\ result' = a.result
    /\ got_final' = a.got_final
    /\ UNCHANGED <<tierVars, knowVars, graphVars, plugVars, userVars, loopVars, facVars>>

\* AgentLoop.run(user_input) is called on a new loop
AgentRun ==
    /\ agent_pc = "idle"
    /\ AgentCommit(run(CurAgent))

\* the LLM answers and the loop body runs to its end
AgentIteration(resp, n, tokens) ==
    /\ agent_pc = "loop"
    /\ AgentCommit(run_iteration(CurAgent, resp, n, tokens))

NextAgent ==
    \/ AgentRun
    \/ \E resp \in Responses, n \in ToolCallCounts, tokens \in TokenCounts :
          AgentIteration(resp, n, tokens)

SpecAgent == Init /\ [][NextAgent]_vars

\* ================================================================ claims

AllCopies == L1NodeSet(l1_nodes) \cup {l2_rows[i] : i \in DOMAIN l2_rows}

\* C1: every node present in L1 is also present in the L2 vector store,
\* also after a store that failed part-way.
C1_L1RecoverableFromL2 == L1Ids(l1_nodes) \subseteq L2Ids(l2_rows)

\* C2: every node copy held in L1 or in L2 vector has
\* min_energy <= energy <= 1.0.
C2_EnergyWithinBounds ==
    \A n \in AllCopies : MinEnergy <= n.energy /\ n.energy <= MaxEnergy

\* C7: after every L1 put, L1 holds at most max_nodes entries; a put that
\* exceeds max_nodes evicts exactly count - max_nodes entries, each with
\* energy no greater than that of every entry that remains.
C7_PutEvictsLowest ==
    /\ Len(l1_nodes) <= L1MaxNodes
    /\ putLog.nevicted = Max(0, putLog.count - L1MaxNodes)
    /\ \A e \in putLog.evicted : \A r \in putLog.remaining : e <= r

C7_Witness ==
    /\ putLog.count > L1MaxNodes
    /\ putLog.nevicted = 1
    /\ \E e \in putLog.evicted : \E r \in putLog.remaining : e < r
    /\ Cardinality(putLog.remaining) > 1

TierOps == {"store", "get", "update_energy"}

\* C8: every node evicted from L1 by a capacity-triggered put is returned to
\* the caller, and once the enclosing TierManager operation completes it is
\* recorded in the L2 vector store with tier = L2.
C8_EvictedAreDemoted ==
    (lastOp.op \in TierOps /\ lastOp.completed) =>
        /\ lastOp.evicted \subseteq lastOp.returned
        /\ \A id \in lastOp.evicted :
              id \in L2Ids(l2_rows) /\ l2_rows[id].tier = "L2"

\* C9: whenever get(id) or update_energy(id, e) finds a node that is not
\* resident in L1 and leaves it with energy >= l2_to_l1_threshold, the node
\* is resident in L1 when the call returns.
C9_PromotedWhenHot ==
    (/\ lastOp.op \in {"get", "update_energy"}
     /\ lastOp.found
     /\ ~lastOp.wasInL1
     /\ lastOp.energy >= L2ToL1Threshold) => lastOp.id \in L1Ids(l1_nodes)

\* C10: update_energy(id, e) with e < l1_to_l2_threshold on a node resident
\* in L1 leaves it absent from L1 and present in L2 vector with energy e and
\* tier = L2.
C10_DemotedWhenCold ==
    (/\ lastOp.op = "update_energy"
     /\ lastOp.wasInL1
     /\ lastOp.e < L1ToL2Threshold) =>
        /\ lastOp.id \notin L1Ids(l1_nodes)
        /\ lastOp.id \in L2Ids(l2_rows)
        /\ l2_rows[lastOp.id].energy = lastOp.e
        /\ l2_rows[lastOp.id].tier = "L2"

C10_Witness ==
    /\ lastOp.op = "update_energy"
    /\ lastOp.wasInL1
    /\ lastOp.e < L1ToL2Threshold
    /\ lastOp.id \in L2Ids(l2_rows)
    /\ Len(l1_nodes) > 0

\* C11: immediately after update_energy(id, e) returns True, the energy
\* recorded for id in L1 (if the node is resident there) and the energy
\* recorded for id in the L2 vector store are both equal to e, for every
\* value e passed by a caller.
C11_UpdateEnergyCoherent ==
    (lastOp.op = "update_energy" /\ lastOp.found) =>
        /\ lastOp.id \in L1Ids(l1_nodes) =>
              L1Lookup(l1_nodes, lastOp.id).energy = lastOp.e
        /\ lastOp.id \in L2Ids(l2_rows) =>
              l2_rows[lastOp.id].energy = lastOp.e

\* C12: after delete_node(id) returns, the node is absent from L1, from the
\* L2 vector store and from the L2 graph, and no edge of the graph has id as
\* its source or its target.
C12_DeleteRemovesNodeAndEdges ==
    lastLink.op = "delete_node" =>
        /\ lastLink.source \notin L1Ids(l1_nodes)
        /\ lastLink.source \notin L2Ids(l2_rows)
        /\ lastLink.source \notin graph_nodes
        /\ graph_adj[lastLink.source] = <<>>
        /\ Incoming(graph_adj, lastLink.source) = {}

C12_Witness ==
    /\ lastLink.op = "delete_node"
    /\ lastLink.source \in used
    /\ Len(lastLink.pre) > 0
    /\ lastLink.incoming > 0
    /\ \E u \in NodeIds : graph_adj[u] # <<>>

RowById(rows, id) == rows[CHOOSE i \in RowIdxById(rows, id) : TRUE]

\* C13: when process_message extracts a triple that directly conflicts with
\* a stored triple, the stored triple is left unmodified and a pending update
\* keyed by the new triple's id is queued, unless the role is assistant and
\* the new triple's confidence is strictly higher than the existing one's, in
\* which case the stored triple is updated immediately and nothing is queued.
C13_ConflictQueuesOrAutoUpdates ==
    (lastMsg.op = "process_message" /\ lastMsg.conflict # 0) =>
        LET old == lastMsg.rows[lastMsg.conflict]
        IN IF lastMsg.role = "assistant" /\ lastMsg.higher
           THEN /\ RowIdxById(triples, old.id) # {}
                /\ RowById(triples, old.id).object = lastMsg.obj
                /\ RowById(triples, old.id).version = old.version + 1
                /\ pending = lastMsg.pend
           ELSE /\ triples = lastMsg.rows
                /\ Len(pending) = Len(lastMsg.pend) + 1
                /\ \E i \in 1..Len(pending) :
                      /\ pending[i].key = lastMsg.key
                      /\ pending[i].new.id = lastMsg.key
                      /\ pending[i].existing = old

\* C14: after confirm(key) on a pending update whose existing triple has
\* object o_old and version v at the time of the confirm, the stored triple
\* has the new value as object, version v + 1, previous_values extended by
\* o_old, exactly one new history row linking o_old to the new value, and the
\* pending entry for key is gone.
C14_ConfirmAppliesUpdate ==
    (lastMsg.op = "confirm" /\ PendingIdx(lastMsg.pend, lastMsg.key) # {}) =>
        LET entry == lastMsg.pend[CHOOSE i \in PendingIdx(lastMsg.pend, lastMsg.key) : TRUE]
            id == entry.existing.id
        IN RowIdxById(lastMsg.rows, id) # {} =>
              LET cur == RowById(lastMsg.rows, id)
              IN /\ RowIdxById(triples, id) # {}
                 /\ RowById(triples, id).object = entry.new.object
                 /\ RowById(triples, id).version = cur.version + 1
                 /\ RowById(triples, id).previous_values =
                        Append(cur.previous_values, cur.object)
                 /\ history = Append(lastMsg.hist,
                        [triple_id |-> id, old_value |-> cur.object,
                         new_value |-> entry.new.object])
                 /\ PendingIdx(pending, lastMsg.key) = {}

C14_Witness ==
    /\ lastMsg.op = "confirm"
    /\ lastMsg.ret
    /\ \E r \in {triples[i] : i \in 1..Len(triples)} :
          r.version = 3 /\ r.previous_values[1] # r.previous_values[2]
    /\ Len(history) = 2

\* C15: if process_confirmation_response receives a message that is not a
\* recognised positive or negative response while updates are pending, it
\* reports handled = False and changes neither the pending updates nor the
\* knowledge store.
C15_UnrecognisedResponseIsNoOp ==
    (/\ lastMsg.op = "response"
     /\ lastMsg.pend # <<>>
     /\ ~is_positive(lastMsg.msg)
     /\ ~is_negative(lastMsg.msg)) =>
        /\ ~lastMsg.handled
        /\ pending = lastMsg.pend
        /\ triples = lastMsg.rows
        /\ history = lastMsg.hist

C15_Witness ==
    /\ lastMsg.op = "response"
    /\ Len(lastMsg.pend) = 2
    /\ lastMsg.msg = <<"h", "m", "m">>
    /\ Len(pending) = 2

\* C16: recall, get_context and get_working_memory executed while the
\* current user is u never return a node that was ingested while the current
\* user was a different user v.
C16_RetrievalStaysWithinUser ==
    lastRecall.op # "none" =>
        \A id \in lastRecall.result : owner[id] = lastRecall.user

EdgeKeys(succ) == {<<succ[i].target, succ[i].link_type>> : i \in 1..Len(succ)}

\* C17: graph edges are keyed by (source_id, target_id, link_type): re-adding
\* a link with an existing key only updates that edge's weight, and adding a
\* link with the same source and target but a different link_type leaves the
\* existing edge intact, so both edges coexist.
C17_EdgesKeyedByType ==
    lastLink.op = "add_link" =>
        LET post == graph_adj[lastLink.source]
            key == <<lastLink.target, lastLink.link_type>>
        IN /\ \A i, j \in 1..Len(post) :
                 (post[i].target = post[j].target /\ post[i].link_type = post[j].link_type)
                     => i = j
           /\ key \in EdgeKeys(lastLink.pre) =>
                 /\ Len(post) = Len(lastLink.pre)
                 /\ \A i \in 1..Len(post) :
                       IF <<post[i].target, post[i].link_type>> = key
                       THEN post[i].weight = lastLink.weight
                       ELSE post[i] = lastLink.pre[i]
           /\ \A e \in SeqRange(lastLink.pre) :
                 (e.target = lastLink.target /\ e.link_type # lastLink.link_type)
                     => (e \in SeqRange(post) /\ key \in EdgeKeys(post))

\* C18: after any sequence of add_link calls every node's out-degree is at
\* most max_edges_per_node, and whenever an insertion prunes an edge, the
\* pruned edge had the lowest weight among the source's outgoing edges
\* before the insertion.
C18_OutDegreeBoundedPruneWeakest ==
    /\ \A u \in NodeIds : Len(graph_adj[u]) <= MaxEdgesPerNode
    /\ lastLink.op = "add_link" =>
          \A p \in lastLink.pruned : \A e \in SeqRange(lastLink.pre) : p.weight <= e.weight

C18_Witness ==
    /\ lastLink.op = "add_link"
    /\ lastLink.pruned # {}
    /\ \E p \in lastLink.pruned : \E e \in SeqRange(lastLink.pre) : p.weight < e.weight
    /\ Len(graph_adj[lastLink.source]) = MaxEdgesPerNode

\* C19: every edge weight in the graph stays within [0.1, 2.0] after any
\* sequence of add_link, update_link_weight and strengthen_link calls, and
\* strengthen_link(source, target, delta) leaves the weight at
\* min(2.0, weight + delta).
C19_WeightWithinBounds ==
    /\ \A u \in NodeIds : \A i \in 1..Len(graph_adj[u]) :
          MinLinkWeight <= graph_adj[u][i].weight /\ graph_adj[u][i].weight <= MaxLinkWeight
    /\ lastLink.op = "strengthen_link" =>
          \A i \in 1..Len(lastLink.pre) :
              lastLink.pre[i].target = lastLink.target =>
                  graph_adj[lastLink.source][i].weight =
                      Min(MaxLinkWeight, lastLink.pre[i].weight + lastLink.weight)

\* best product of (decay * weight) along an h-edge path from a start
RECURSIVE BestPath(_, _, _, _, _)
BestPath(adj, starts, h, n, decay) ==
    IF h = 0 THEN (IF n \in starts THEN ActOne ELSE 0)
    ELSE SetMax(UNION {{Candidate(BestPath(adj, starts, h - 1, m, decay), decay, adj[m][i].weight) :
                           i \in EdgeIdx(adj[m], n)} : m \in NodeIds})

\* C20: spread_activation(starts, max_hops, decay) returns 1.0 for each start
\* and, for every other reached node, the maximum over hop counts
\* h <= max_hops of the best product of (decay * edge weight) along an h-edge
\* path from a start, where only candidates below 0.01 are dropped.
C20_SpreadIsBestPathProduct ==
    lastSpread.op = "spread_activation" =>
        \A n \in NodeIds :
            lastSpread.result[n] =
                IF n \in lastSpread.starts THEN ActOne
                ELSE LET best == SetMax({BestPath(graph_adj, lastSpread.starts, h, n, lastSpread.decay) :
                                            h \in 1..lastSpread.hops})
                     IN IF best < ActThreshold THEN 0 ELSE best

\* C22: record_event with feedback f # 0 changes the persisted energy of each
\* existing related node by exactly f * 0.1, capped by the energy bounds, and
\* by nothing more.
C22_FeedbackBoostIsExact ==
    (lastOp.op = "record_event" /\ lastOp.found /\ lastOp.e # 0) =>
        /\ lastOp.id \in L2Ids(l2_rows)
        /\ l2_rows[lastOp.id].energy =
               Max(MinEnergy, Min(MaxEnergy, lastOp.energy + lastOp.e))

OneMoreHop ==
    spread_activation(CurGraph, lastSpread.starts, lastSpread.hops + 1, lastSpread.decay)

\* C21: for a fixed graph, start set and decay factor, increasing max_hops
\* never decreases any node's activation score and never removes a node from
\* the result of spread_activation.
C21_SpreadMonotoneInHops ==
    lastSpread.op = "spread_activation" =>
        \A n \in NodeIds :
            /\ OneMoreHop[n] >= lastSpread.result[n]
            /\ (lastSpread.result[n] > 0 => OneMoreHop[n] > 0)

\* C25: when the cleanup task has ended by cancellation and its last run did not
\* raise, every node that run removed from L1 was written to L2 and its row has
\* tier "L2"
C25_StopLetsWritesComplete ==
    (loop_pc["cleanup"] = "cancelled" /\ ~loopObs.runRaised) =>
        \A id \in loopObs.removed :
            /\ id \in loopObs.written
            /\ id \in L2Ids(l2_rows)
            /\ l2_rows[id].tier = "L2"

C25_Witness ==
    /\ loop_pc["cleanup"] = "cancelled"
    /\ loopObs.stopDuringRun
    /\ ~loopObs.runRaised
    /\ loopObs.removed # {}

\* C26: a loop whose iteration raised runs its next iteration, unless it is stopped
C26_LoopSurvivesError ==
    \A l \in Loops : loopObs.raised[l] ~> (loop_pc[l] = "body" \/ ~RunningOf(l))

C26_Witness ==
    \E l \in Loops : loopObs.raised[l] /\ loop_pc[l] = "sleep" /\ RunningOf(l)

\* C23: after record_event with feedback f > 0 and an existing related node, a
\* causal link leads from the related node to the new event node
C23_PositiveFeedbackLinks ==
    (lastFac.op = "record_event" /\ lastFac.f > 0 /\ lastFac.existed) =>
        /\ LinkKey(lastFac.rid, lastFac.id, "causal") \in lastFac.links
        /\ \E i \in 1..Len(graph_adj[lastFac.rid]) :
              /\ graph_adj[lastFac.rid][i].target = lastFac.id
              /\ graph_adj[lastFac.rid][i].link_type = "causal"

\* C24: an ingest writes the L2 vector store, then the L2 graph, and L1 last
C24_IngestWriteOrder ==
    lastFac.op = "ingest" => wlog \in {<<"L2V", "L2G", "L1">>, <<"L2V", "L2G">>}

\* C27: once connect_all has marked L3 unavailable, the manager is initialized
\* and every call since then returned without error and without trying to
\* write L3
C27_DegradedModeNeverWritesL3 ==
    tier_l3_available = "no" =>
        /\ initialized
        /\ lastFac.error = "none"
        /\ ~lastFac.l3attempt

C27_Witness ==
    /\ tier_l3_available = "no"
    /\ lastFac.op \in {"ingest", "record_event"}
    /\ lastFac.links # {}
    /\ lastFac.l3_was = "no"

\* C28: with L3 available, every link an ingest or record_event created is a
\* row of crystal_links
C28_LinksReachCrystal ==
    (lastFac.op \in {"ingest", "record_event"} /\ tier_l3_available = "yes") =>
        lastFac.links \subseteq CrystalKeys(crystal_links)

\* C30: a façade call made before initialize fails with NotReady and touches
\* no store
C30_NotReadyBeforeInitialize ==
    (lastFac.op \in {"ingest", "recall", "record_event", "get_node", "delete_node"}
        /\ ~lastFac.wasInit) =>
        (lastFac.error = "NotReady" /\ ~lastFac.touched)

\* C31: after a cleanup run, every node the run removed from L1 is a row of the
\* L2 vector store with tier "L2", and no node left in L1 has energy below
\* l1_to_l2_threshold
C31_CleanupDemotesAndWritesBack ==
    lastOp.op = "cleanup" =>
        /\ \A id \in lastOp.evicted :
              /\ id \notin L1Ids(l1_nodes)
              /\ id \in L2Ids(l2_rows)
              /\ l2_rows[id].tier = "L2"
        /\ \A n \in L1NodeSet(l1_nodes) : n.energy >= L1ToL2Threshold

C31_Witness ==
    /\ lastOp.op = "cleanup"
    /\ lastOp.evicted # {}
    /\ \E id \in lastOp.evicted : l2_rows[id].energy < L1ToL2Threshold

\* C32: confirm(key) never loses an update: whether or not the pending entry
\* carries an existing triple, either the new value has been written to the
\* knowledge store and the pending entry is removed, or, when the write did
\* not happen, the pending entry is still present.
C32_ConfirmNeverLosesUpdate ==
    (lastMsg.op = "confirm" /\ PendingIdx(lastMsg.pend, lastMsg.key) # {}) =>
        LET entry == lastMsg.pend[CHOOSE i \in PendingIdx(lastMsg.pend, lastMsg.key) : TRUE]
            written == /\ triples # lastMsg.rows
                       /\ \E i \in 1..Len(triples) :
                             /\ Lower(triples[i].subject) = Lower(entry.new.subject)
                             /\ triples[i].predicate = entry.new.predicate
                             /\ triples[i].object = entry.new.object
        IN \/ written /\ PendingIdx(pending, lastMsg.key) = {}
           \/ ~written /\ PendingIdx(pending, lastMsg.key) # {}

\* C33: if the response matches the negative vocabulary, no pending update
\* is applied: all pending entries are removed and the knowledge store is
\* unchanged. Stated for pending entries queued by process_message, which all
\* carry an existing triple.
C33_NegativeResponseAppliesNothing ==
    (/\ lastMsg.op = "response"
     /\ lastMsg.pend # <<>>
     /\ \A i \in 1..Len(lastMsg.pend) : lastMsg.pend[i].existing # NoTriple
     /\ is_negative(lastMsg.msg)) =>
        /\ pending = <<>>
        /\ triples = lastMsg.rows
        /\ history = lastMsg.hist

\* C34: once a node has been deleted, by delete_node or by resolve_conflict
\* with keep_new or keep_old, it never reappears in L1, in the L2 vector store
\* or in the graph, and no link created later has it as an endpoint, whatever
\* ingests follow.
C34_DeletedNeverReappears ==
    \A id \in deleted :
        /\ id \notin L1Ids(l1_nodes)
        /\ id \notin L2Ids(l2_rows)
        /\ id \notin graph_nodes
        /\ graph_adj[id] = <<>>
        /\ Incoming(graph_adj, id) = {}

\* C35: after any sequence of process_message and confirmation operations,
\* every triple_id in the knowledge vector store identifies a row that exists
\* in knowledge_triples.
C35_VectorIdsAreRows ==
    \A id \in vector_ids : RowIdxById(triples, id) # {}

\* C36: for every node of L1 and all times t1 <= t2 from now on, applying decay
\* at t1 and again at t2 gives the energy that applying it once at t2 gives
C36_DecayIndependentOfApplications ==
    \A n \in L1NodeSet(l1_nodes) : \A t1, t2 \in now..(MaxTime + 1) :
        t1 <= t2 =>
            apply_decay(apply_decay(n, t1), t2).energy = apply_decay(n, t2).energy

\* C38: add_link for a (source, target) pair that already has an edge leaves
\* every other outgoing edge of the source in place
C38_UpdateKeepsOtherEdges ==
    (lastLink.op = "add_link"
        /\ \E e \in SeqRange(lastLink.pre) : e.target = lastLink.target) =>
        \A e \in SeqRange(lastLink.pre) :
            e.target # lastLink.target => e \in SeqRange(graph_adj[lastLink.source])

\* C37: after recall, the energy of every node it returned is its energy before
\* the call plus one access boost (capped), and the energy of every other node
\* is what it was
C37_RecallBoostsExactlyReturned ==
    lastRecall.op = "recall" =>
        \A id \in DOMAIN lastRecall.pre :
            /\ id \in DOMAIN lastRecall.post
            /\ lastRecall.post[id] =
                  IF id \in lastRecall.result
                  THEN Min(MaxEnergy, lastRecall.pre[id] + ActivationBoost)
                  ELSE lastRecall.pre[id]

C21_Witness ==
    /\ lastSpread.op = "spread_activation"
    /\ \E n \in NodeIds : lastSpread.result[n] > 0 /\ n \notin lastSpread.starts
    /\ \E n \in NodeIds : lastSpread.result[n] = 0 /\ OneMoreHop[n] > 0

RowSet == {triples[i] : i \in 1..Len(triples)}

\* C3: for every stored triple, version = 1 + len(previous_values) and
\* previous_values is exactly the sequence of earlier object values in the
\* order they were replaced (every value written to the row but the current
\* one, which is the last written).
C3_VersionCountsPrevious ==
    \A r \in RowSet :
        /\ r.version = 1 + Len(r.previous_values)
        /\ r.id \in DOMAIN objlog
        /\ objlog[r.id] = Append(r.previous_values, r.object)

C3_Witness ==
    \E r \in RowSet :
        /\ r.version = 3
        /\ r.previous_values[1] # r.previous_values[2]
        /\ lastStore.op = "store"
        /\ \E h \in 1..Len(history) : history[h].triple_id = r.id

\* C4: every change of a stored triple's object is recorded by exactly one
\* knowledge_history row (old_value, new_value), so the number of history
\* rows of a triple equals version - 1.
C4_HistoryRowPerChange ==
    \A r \in RowSet :
        LET h == HistoryOf(history, r.id)
        IN /\ Len(h) = r.version - 1
           /\ \A k \in 1..Len(h) :
                 /\ h[k].old_value = objlog[r.id][k]
                 /\ h[k].new_value = objlog[r.id][k + 1]

\* C5: storing a triple whose (subject, predicate) exists with an identical
\* object changes neither version nor previous_values and adds no history row.
C5_StoreIdenticalIsIdempotent ==
    (lastStore.op = "store" /\ lastStore.existed /\ lastStore.same) =>
        \A r \in RowSet : r.id = lastStore.id =>
            /\ r.version = lastStore.version
            /\ r.previous_values = lastStore.prev
            /\ Len(HistoryOf(history, r.id)) = lastStore.nhist

\* C6: the store holds at most one triple per case-insensitive key
\* (lower(subject), lower(predicate)), whoever contributed it.
C6_OneRowPerLoweredKey ==
    \A i, j \in 1..Len(triples) :
        (/\ Lower(triples[i].subject) = Lower(triples[j].subject)
         /\ Lower(triples[i].predicate) = Lower(triples[j].predicate)) => i = j

\* C39: every signal in the pending-conflict queue refers to two nodes that
\* are both in the L2 vector store, and resolve_conflict with an id that is
\* not in the queue returns False and changes neither the queue nor a store.
C39_QueuedSignalsReferToStoredNodes ==
    /\ \A i \in 1..Len(pending_conflicts) :
          /\ pending_conflicts[i].node_a_id \in L2Ids(l2_rows)
          /\ pending_conflicts[i].node_b_id \in L2Ids(l2_rows)
    /\ (lastFac.op = "resolve_conflict" /\ ~lastFac.existed) =>
          /\ pending_conflicts = lastFac.pre.queue
          /\ l1_nodes = lastFac.pre.l1
          /\ l2_rows = lastFac.pre.l2
          /\ CurGraph = lastFac.pre.g

\* C40: AgentLoop.run returns COMPLETED whenever the LLM gave a final
\* response without tool calls within the iteration budget, the last allowed
\* iteration included, and MAX_ITERATIONS only when all max_iterations
\* iterations ended in tool calls.
C40_FinalResponseCompletes ==
    agent_pc = "returned" =>
        /\ got_final => result.state = "completed"
        /\ result.state = "max_iterations" =>
              (~got_final /\ ~result.error /\ result.iterations = max_iterations)

====
